---- MODULE Spec2Model ----
(***************************************************************************)
(* A model of the state-estimation engine of lawrencehook/kalman:          *)
(* MatrixUtils, KalmanFilter2D, IMMFilter, FilterRegistry and the          *)
(* generateData loop of SimulationController.                              *)
(*                                                                         *)
(* JavaScript numbers are IEEE-754 binary64 values.  The model keeps the   *)
(* structure of that format (a signed mantissa and a binary exponent,      *)
(* round to nearest even after every operation, the exponent range of      *)
(* binary64 with overflow to Infinity and underflow to 0, NaN) and narrows *)
(* the mantissa from 53 bits to MantBits bits so that every intermediate   *)
(* product fits TLC's integers.  A number is a pair <<m, e>> standing for  *)
(* m * 2^e, with 2^(MantBits-1) <= |m| < 2^MantBits, or <<0, 0>> for zero. *)
(* The sign of zero is not tracked.  JavaScript null is the empty tuple.   *)
(***************************************************************************)
EXTENDS Integers, Sequences, FiniteSets, TLC

\* width of the mantissa of a model number
MantBits == 14

\* largest and smallest binary exponent of a binary64 value
MaxExp == 1023
MinExp == -1074

InfExp == MaxExp + MaxExp
NaN == <<0, InfExp>>
PosInf == <<1, InfExp>>
NegInf == <<-1, InfExp>>
Zero == <<0, 0>>
Null == <<>>

IsNaN(x) == x[2] = InfExp /\ x[1] = 0
IsInf(x) == x[2] = InfExp /\ x[1] # 0
\* Number.isFinite
IsFinite(x) == x[2] # InfExp

Abs(n) == IF n < 0 THEN -n ELSE n
Sgn(n) == IF n < 0 THEN -1 ELSE IF n > 0 THEN 1 ELSE 0

BL2(a) == IF a >= 2 THEN 2 ELSE a
BL4(a) == IF a >= 4 THEN 2 + BL2(a \div 4) ELSE BL2(a)
BL8(a) == IF a >= 16 THEN 4 + BL4(a \div 16) ELSE BL4(a)
BL16(a) == IF a >= 256 THEN 8 + BL8(a \div 256) ELSE BL8(a)
\* number of binary digits of a >= 0
BitLen(a) == IF a >= 65536 THEN 16 + BL16(a \div 65536) ELSE BL16(a)
\* the number nearest to m * 2^e whose leading bit has a binary64 exponent
Ranged(s, m, e) ==
  IF e + MantBits - 1 > MaxExp THEN <<s, InfExp>>
  ELSE IF e + MantBits - 1 < MinExp THEN Zero
  ELSE <<s * m, e>>

\* s * q * 2^e, where rounding up may have carried q to 2^MantBits
Carried(s, q, e) ==
  IF q = 2^MantBits THEN Ranged(s, 2^(MantBits - 1), e + 1)
  ELSE Ranged(s, q, e)

\* s * (q + r/(2h)) * 2^e with the fraction rounded to nearest, ties to even
RoundEven(s, q, r, h, e) ==
  Carried(s, IF r > h \/ (r = h /\ q % 2 = 1) THEN q + 1 ELSE q, e)

\* s * a * 2^e for a > 0 with L binary digits
NormDigits(s, a, L, e) ==
  IF L <= MantBits
  THEN Ranged(s, a * 2^(MantBits - L), e - (MantBits - L))
  ELSE RoundEven(s, a \div 2^(L - MantBits), a % 2^(L - MantBits),
                 2^(L - MantBits - 1), e + (L - MantBits))

NormAbs(s, a, e) == NormDigits(s, a, BitLen(a), e)

\* n * 2^e rounded to MantBits bits, ties to even
Norm(n, e) == IF n = 0 THEN Zero ELSE NormAbs(Sgn(n), Abs(n), e)

FromInt(n) == Norm(n, 0)

One == <<2^(MantBits - 1), 1 - MantBits>>
Half == <<2^(MantBits - 1), -MantBits>>

FNeg(x) == <<-x[1], x[2]>>

\* x * y
FMul(x, y) ==
  IF x[2] = InfExp \/ y[2] = InfExp
  THEN IF x[1] = 0 \/ y[1] = 0 THEN NaN
       ELSE <<Sgn(x[1]) * Sgn(y[1]), InfExp>>
  ELSE IF x[1] = 0 \/ y[1] = 0 THEN Zero
  ELSE Norm(x[1] * y[1], x[2] + y[2])

\* x + y for finite non-zero x, y with x[2] - y[2] = d >= 0
FAddShift(x, y, d) ==
  IF d > MantBits + 1 THEN x ELSE Norm(x[1] * 2^d + y[1], y[2])

\* x + y for finite non-zero x, y
FAddFinite(x, y) ==
  IF x[2] >= y[2] THEN FAddShift(x, y, x[2] - y[2])
  ELSE FAddShift(y, x, y[2] - x[2])

\* x + y
FAdd(x, y) ==
  IF x[2] = InfExp \/ y[2] = InfExp
  THEN IF IsNaN(x) \/ IsNaN(y) THEN NaN
       ELSE IF IsInf(x) /\ IsInf(y) THEN (IF x[1] = y[1] THEN x ELSE NaN)
       ELSE IF IsInf(x) THEN x ELSE y
  ELSE IF x[1] = 0 THEN y
  ELSE IF y[1] = 0 THEN x
  ELSE FAddFinite(x, y)

\* x - y
FSub(x, y) == FAdd(x, FNeg(y))

\* s * a / b * 2^e for a, b > 0: the quotient with a sticky bit, rounded
FDivAbs(s, a, b, e) ==
  Norm(s * (2 * (a \div b) + (IF a % b = 0 THEN 0 ELSE 1)), e)

\* x / y
FDiv(x, y) ==
  IF IsNaN(x) \/ IsNaN(y) THEN NaN
  ELSE IF IsInf(x)
       THEN (IF IsInf(y) THEN NaN
             ELSE <<x[1] * (IF y[1] < 0 THEN -1 ELSE 1), InfExp>>)
  ELSE IF IsInf(y) THEN Zero
  ELSE IF y[1] = 0 THEN (IF x[1] = 0 THEN NaN ELSE <<Sgn(x[1]), InfExp>>)
  ELSE IF x[1] = 0 THEN Zero
  ELSE FDivAbs(Sgn(x[1]) * Sgn(y[1]), Abs(x[1]) * 2^(MantBits + 1),
               Abs(y[1]), x[2] - y[2] - MantBits - 2)

\* the decimal literal n/d
Lit(n, d) == FDiv(FromInt(n), FromInt(d))

\* the sign of x - y for finite x, y: compared through their difference
SignOfDifference(x, y) == Sgn(FSub(x, y)[1])

\* x < y, x <= y, x >= y, x > y (all false when an operand is NaN)
FLt(x, y) ==
  /\ ~IsNaN(x) /\ ~IsNaN(y) /\ x # y
  /\ IF IsInf(x) \/ IsInf(y)
     THEN x = NegInf \/ y = PosInf
     ELSE SignOfDifference(x, y) < 0
FLe(x, y) == ~IsNaN(x) /\ ~IsNaN(y) /\ (x = y \/ FLt(x, y))
FGe(x, y) == FLe(y, x)
FGt(x, y) == FLt(y, x)

\* Math.max(x, y)
FMax(x, y) ==
  IF IsNaN(x) \/ IsNaN(y) THEN NaN ELSE IF FLt(x, y) THEN y ELSE x
\* Math.min(x, y)
FMin(x, y) ==
  IF IsNaN(x) \/ IsNaN(y) THEN NaN ELSE IF FLt(y, x) THEN y ELSE x

FAbs(x) == <<Abs(x[1]), x[2]>>

RECURSIVE ISqrtBits(_, _, _)
\* the integer square root of n, built bit by bit from bit b down
ISqrtBits(n, b, acc) ==
  IF b < 0 THEN acc
  ELSE IF acc + 2^b <= 46340 /\ (acc + 2^b) * (acc + 2^b) <= n
       THEN ISqrtBits(n, b - 1, acc + 2^b)
       ELSE ISqrtBits(n, b - 1, acc)

\* sqrt(n * 2^e) for n > 0 and even e, from the integer root r of n
FSqrtRoot(n, r, e) == Norm(2 * r + (IF r * r < n THEN 1 ELSE 0), (e \div 2) - 1)

\* sqrt(m * 2^e) for m > 0, with sh chosen so that e - sh is even
FSqrtShifted(m, e, sh) ==
  FSqrtRoot(m * 2^sh, ISqrtBits(m * 2^sh, 15, 0), e - sh)

\* Math.sqrt(x)
FSqrt(x) ==
  IF IsNaN(x) \/ x[1] < 0 THEN NaN
  ELSE IF x[2] = InfExp \/ x[1] = 0 THEN x
  ELSE FSqrtShifted(x[1], x[2],
                    IF (x[2] - MantBits) % 2 = 0 THEN MantBits
                    ELSE MantBits + 1)

\* the integer floor(y) of a finite y with |y| < 2^20
FloorInt(y) ==
  IF y[1] = 0 THEN 0
  ELSE IF y[2] >= 0 THEN y[1] * 2^(y[2])
  ELSE IF -y[2] >= 31 THEN (IF y[1] < 0 THEN -1 ELSE 0)
  ELSE y[1] \div 2^(-y[2])

Log2e == Lit(14427, 10000)
Ln2 == Lit(6931, 10000)

RECURSIVE ExpSeries(_, _, _)
\* 1 + (u/k) * (1 + (u/(k+1)) * ( ... (1 + u/6) ... )): with k = 1 it is
\* e^u by the series 1 + u + u^2/2! + ... + u^6/6!, for 0 <= u < ln 2
ExpSeries(u, k, last) ==
  IF k > last THEN One
  ELSE FAdd(One, FMul(FDiv(u, FromInt(k)), ExpSeries(u, k + 1, last)))

\* p * 2^k
Scaled(p, k) == Norm(p[1], p[2] + k)

\* 2^y for finite y with |y| <= 1100, k = floor(y)
Exp2(y, k) == Scaled(ExpSeries(FMul(FSub(y, FromInt(k)), Ln2), 1, 6), k)

\* 2^y for finite y; below the binary64 range the result is 0, above it
\* Infinity
Exp2Ranged(y) ==
  IF FLt(y, FromInt(-1100)) THEN Zero
  ELSE IF FGt(y, FromInt(1100)) THEN PosInf
  ELSE Exp2(y, FloorInt(y))

\* Math.exp(x) = 2^(x log2(e))
FExp(x) ==
  IF IsNaN(x) THEN NaN
  ELSE IF x = PosInf THEN PosInf
  ELSE IF x = NegInf THEN Zero
  ELSE Exp2Ranged(FMul(x, Log2e))

(***************************************************************************)
(* MatrixUtils.  A matrix is a sequence of rows; a column vector is a      *)
(* matrix with one column, as in the source.                               *)
(***************************************************************************)
RECURSIVE DotFrom(_, _, _, _, _, _)
\* the loop over k of multiply: acc += A[i][k] * B[k][j]
DotFrom(A, B, i, j, k, acc) ==
  IF k > Len(B) THEN acc
  ELSE DotFrom(A, B, i, j, k + 1, FAdd(acc, FMul(A[i][k], B[k][j])))

multiply(A, B) ==
  [i \in 1..Len(A) |-> [j \in 1..Len(B[1]) |-> DotFrom(A, B, i, j, 1, Zero)]]

transpose(A) == [i \in 1..Len(A[1]) |-> [r \in 1..Len(A) |-> A[r][i]]]

add(A, B) ==
  [i \in 1..Len(A) |-> [j \in 1..Len(A[i]) |-> FAdd(A[i][j], B[i][j])]]

subtract(A, B) ==
  [i \in 1..Len(A) |-> [j \in 1..Len(A[i]) |-> FSub(A[i][j], B[i][j])]]

\* the determinant A[0][0]*A[1][1] - A[0][1]*A[1][0] of a 2x2 matrix
Det2(A) == FSub(FMul(A[1][1], A[2][2]), FMul(A[1][2], A[2][1]))

\* the matrix inverse2x2 returns, given the determinant it computed
AdjugateOver(A, det) ==
  << <<FDiv(A[2][2], det), FDiv(FNeg(A[1][2]), det)>>,
     <<FDiv(FNeg(A[2][1]), det), FDiv(A[1][1], det)>> >>

inverse2x2(A) == AdjugateOver(A, Det2(A))

identity(n) == [i \in 1..n |-> [j \in 1..n |-> IF i = j THEN One ELSE Zero]]

\* rows startRow..endRow and columns startCol..endCol, counted from 0
extractSubmatrix(matrix, startRow, endRow, startCol, endCol) ==
  [i \in 1..(endRow - startRow + 1) |->
     [j \in 1..(endCol - startCol + 1) |-> matrix[startRow + i][startCol + j]]]

(***************************************************************************)
(* FilterBase and KalmanFilter2D.  A filter object is the record of its    *)
(* fields.                                                                 *)
(***************************************************************************)
\* FilterBase.getState
getState(f) == f.state

\* FilterBase.getPosition
getPosition(f) ==
  IF f.state = Null \/ Len(f.state) < 2 THEN Null
  ELSE <<f.state[1][1], f.state[2][1]>>

\* FilterBase.getPositionCovariance
getPositionCovariance(f) ==
  IF f.covariance = Null THEN Null
  ELSE extractSubmatrix(f.covariance, 0, 1, 0, 1)

\* the state transition matrix F of the constructor; h is 0.5*dt*dt
TransitionEntries(dt, h) ==
  << <<One, Zero, dt, Zero, h, Zero>>, <<Zero, One, Zero, dt, Zero, h>>,
     <<Zero, Zero, One, Zero, dt, Zero>>, <<Zero, Zero, Zero, One, Zero, dt>>,
     <<Zero, Zero, Zero, Zero, One, Zero>>,
     <<Zero, Zero, Zero, Zero, Zero, One>> >>

TransitionMatrix(dt) == TransitionEntries(dt, FMul(FMul(Half, dt), dt))

\* the measurement matrix H of the constructor (position only)
MeasurementMatrix ==
  << <<One, Zero, Zero, Zero, Zero, Zero>>,
     <<Zero, One, Zero, Zero, Zero, Zero>> >>

\* the matrix Q of rebuildNoise from its distinct entries
NoiseEntries(a, b, c, d, e, q) ==
  << <<a, Zero, b, Zero, c, Zero>>, <<Zero, a, Zero, b, Zero, c>>,
     <<b, Zero, d, Zero, e, Zero>>, <<Zero, b, Zero, d, Zero, e>>,
     <<c, Zero, e, Zero, q, Zero>>, <<Zero, c, Zero, e, Zero, q>> >>

\* Q from the powers dt**2, dt**3, dt**4
NoiseFromPowers(q, dt, dt2, dt3, dt4) ==
  NoiseEntries(FMul(FDiv(dt4, FromInt(4)), q), FMul(FDiv(dt3, FromInt(2)), q),
               FMul(FDiv(dt2, FromInt(2)), q), FMul(dt2, q), FMul(dt, q), q)

NoiseFromCube(q, dt, dt2, dt3) ==
  NoiseFromPowers(q, dt, dt2, dt3, FMul(dt3, dt))

NoiseFromSquare(q, dt, dt2) == NoiseFromCube(q, dt, dt2, FMul(dt2, dt))

\* the process noise matrix Q of rebuildNoise
ProcessNoiseMatrix(q, dt) == NoiseFromSquare(q, dt, FMul(dt, dt))

\* the measurement noise matrix R of rebuildNoise; rr is r*r
MeasurementNoiseEntries(rr) == << <<rr, Zero>>, <<Zero, rr>> >>

MeasurementNoiseMatrix(r) == MeasurementNoiseEntries(FMul(r, r))

\* KalmanFilter2D.rebuildNoise
rebuildNoise(f) ==
  [f EXCEPT !.Q = ProcessNoiseMatrix(f.processNoiseScalar, f.dt),
            !.R = MeasurementNoiseMatrix(f.measurementNoiseScalar)]

\* the fields the constructor sets before it calls rebuildNoise
Constructed(config) ==
  [dt |-> config.dt, initialized |-> FALSE,
   F |-> TransitionMatrix(config.dt), H |-> MeasurementMatrix,
   state |-> Null, covariance |-> Null,
   processNoiseScalar |-> config.processNoise,
   measurementNoiseScalar |-> config.measurementNoise,
   Q |-> Null, R |-> Null,
   lastInnovation |-> Null, lastKalmanGain |-> Null,
   lastInnovationCovariance |-> Null]

\* new KalmanFilter2D(config)
KalmanFilter2D(config) == rebuildNoise(Constructed(config))

\* setInitialState without its last assignment
setInitialStateNoFlag(f, x0, P0) == [f EXCEPT !.state = x0, !.covariance = P0]

\* KalmanFilter2D.setInitialState
setInitialState(f, x0, P0) ==
  [f EXCEPT !.state = x0, !.covariance = P0, !.initialized = TRUE]

\* predict without its last three assignments: the cached innovation, gain
\* and innovation covariance of the previous update stay
KFPredictKeepingCache(f) ==
  IF ~f.initialized THEN f
  ELSE [f EXCEPT !.state = multiply(f.F, f.state),
                 !.covariance = add(multiply(multiply(f.F, f.covariance),
                                             transpose(f.F)), f.Q)]

\* predict without its guard: before initialization there is no covariance to
\* propagate, and the process noise alone becomes the covariance
KFPredictUnguarded(f) ==
  IF ~f.initialized THEN [f EXCEPT !.covariance = f.Q]
  ELSE [f EXCEPT
          !.state = multiply(f.F, f.state),
          !.covariance =
             add(multiply(multiply(f.F, f.covariance), transpose(f.F)), f.Q),
          !.lastInnovation = Null,
          !.lastKalmanGain = Null,
          !.lastInnovationCovariance = Null]

\* KalmanFilter2D.predict
KFPredict(f) ==
  IF ~f.initialized THEN f
  ELSE [f EXCEPT
          !.state = multiply(f.F, f.state),
          !.covariance =
             add(multiply(multiply(f.F, f.covariance), transpose(f.F)), f.Q),
          !.lastInnovation = Null,
          !.lastKalmanGain = Null,
          !.lastInnovationCovariance = Null]

\* the innovation covariance S = H P H^T + R of update
InnovationCovariance(f) ==
  add(multiply(multiply(f.H, f.covariance), transpose(f.H)), f.R)

\* the gain K = P H^T S^-1 of update
KalmanGain(f, S) ==
  multiply(multiply(f.covariance, transpose(f.H)), inverse2x2(S))

\* the assignments of update, given its innovation, S and K
Updated(f, innovation, S, K) ==
  [f EXCEPT
     !.lastInnovation = innovation,
     !.lastInnovationCovariance = S,
     !.lastKalmanGain = K,
     !.state = add(f.state, multiply(K, innovation)),
     !.covariance = multiply(subtract(identity(6), multiply(K, f.H)),
                             f.covariance)]

UpdatedWith(f, measurement, S) ==
  Updated(f, subtract(measurement, multiply(f.H, f.state)), S,
          KalmanGain(f, S))

\* update with the innovation covariance taken as H P H^T, without R
KFUpdateWithoutR(f, measurement) ==
  IF ~f.initialized THEN f
  ELSE UpdatedWith(f, measurement,
                   multiply(multiply(f.H, f.covariance), transpose(f.H)))

\* KalmanFilter2D.update
KFUpdate(f, measurement) ==
  IF ~f.initialized THEN f
  ELSE UpdatedWith(f, measurement, InnovationCovariance(f))

\* updateNoise without its call of rebuildNoise: the scalars are stored and
\* the matrices Q and R stay as they were
KFUpdateNoiseStale(f, measurementNoise, processNoise) ==
  [f EXCEPT !.processNoiseScalar = processNoise,
            !.measurementNoiseScalar = measurementNoise]

\* KalmanFilter2D.updateNoise
KFUpdateNoise(f, measurementNoise, processNoise) ==
  rebuildNoise([f EXCEPT !.processNoiseScalar = processNoise,
                         !.measurementNoiseScalar = measurementNoise])

(***************************************************************************)
(* IMMFilter: two KalmanFilter2D models, model probabilities mu and the    *)
(* model transition matrix Pi.                                             *)
(***************************************************************************)
\* the literals 1e-12, 1e-9 and 0.1
Eps12 == FMul(Lit(1, 1000000), Lit(1, 1000000))
Eps9 == Lit(1, 1000000000)
Tenth == Lit(1, 10)

\* the default of cfg.trans: [[0.95,0.05],[0.05,0.95]]
DefaultTrans ==
  << <<Lit(95, 100), Lit(5, 100)>>, <<Lit(5, 100), Lit(95, 100)>> >>

\* new IMMFilter(cfg)
IMMFilter(cfg) ==
  [dt |-> cfg.dt,
   models |-> <<KalmanFilter2D([dt |-> cfg.dt,
                                measurementNoise |-> cfg.measurementNoise,
                                processNoise |-> cfg.processNoiseSlow]),
                KalmanFilter2D([dt |-> cfg.dt,
                                measurementNoise |-> cfg.measurementNoise,
                                processNoise |-> cfg.processNoiseFast])>>,
   mu |-> <<Half, Half>>,
   Pi |-> IF cfg.trans = Null THEN DefaultTrans ELSE cfg.trans,
   initialized |-> FALSE, state |-> Null, covariance |-> Null,
   lastInnovation |-> Null, lastInnovationCovariance |-> Null,
   lastKalmanGain |-> Null]

_vsub(a, b) == [i \in 1..Len(a) |-> <<FSub(a[i][1], b[i][1])>>]

_outer(d) == [i \in 1..6 |-> [j \in 1..6 |-> FMul(d[i][1], d[j][1])]]

_madd(A, B) ==
  [i \in 1..Len(A) |-> [j \in 1..Len(A[i]) |-> FAdd(A[i][j], B[i][j])]]

_mscale(A, s) == [i \in 1..Len(A) |-> [j \in 1..Len(A[i]) |-> FMul(A[i][j], s)]]

\* Array(6).fill().map(()=>Array(6).fill(0))
ZeroMatrix == [i \in 1..6 |-> [j \in 1..6 |-> Zero]]

\* the loop x[r][0] += xi[r][0] * w_i over the two models, from zero
WeightedState(x1, x2, w1, w2) ==
  [r \in 1..6 |->
     <<FAdd(FAdd(Zero, FMul(x1[r][1], w1)), FMul(x2[r][1], w2))>>]

\* one model's term (P_i + dx dx^T) * w_i, with dx = x_i - x
SpreadTerm(m, x, w) ==
  _mscale(_madd(m.covariance, _outer(_vsub(getState(m), x))), w)

\* the loop P = P + term_i over the two models, from zero
WeightedCovariance(models, x, w1, w2) ==
  _madd(_madd(ZeroMatrix, SpreadTerm(models[1], x, w1)),
        SpreadTerm(models[2], x, w2))

\* the assignments that end _combineByMu, given the state x it computed
CombinedAt(f, x) ==
  [f EXCEPT !.state = x,
            !.covariance = WeightedCovariance(f.models, x, f.mu[1], f.mu[2])]

\* IMMFilter._combineByMu
_combineByMu(f) ==
  CombinedAt(f, WeightedState(getState(f.models[1]), getState(f.models[2]),
                              f.mu[1], f.mu[2]))

\* IMMFilter.initialize
IMMInitialize(f, x0, P0) ==
  [f EXCEPT !.models = <<setInitialState(f.models[1], x0, P0),
                         setInitialState(f.models[2], x0, P0)>>,
            !.state = x0, !.covariance = P0, !.initialized = TRUE]

\* IMMFilter.updateNoise
IMMUpdateNoise(f, measNoise, procNoise) ==
  [f EXCEPT !.models =
     <<KFUpdateNoise(f.models[1], measNoise, FMax(Tenth, FMul(procNoise, Half))),
       KFUpdateNoise(f.models[2], measNoise, FMul(procNoise, FromInt(3)))>>]

\* Pi[0][j]*muPrev[0] + Pi[1][j]*muPrev[1]
MixPrior(Pi, mu, j) == FAdd(FMul(Pi[1][j], mu[1]), FMul(Pi[2][j], mu[2]))

\* c[j] of predict
MixNorm(Pi, mu, j) == FMax(MixPrior(Pi, mu, j), Eps12)

\* w[i][j] of predict
MixWeight(Pi, mu, i, j) == FDiv(FMul(Pi[i][j], mu[i]), MixNorm(Pi, mu, j))

\* model j after the body of predict's loop, given the mixed state x0
MixedAt(models, j, w1, w2, x0) ==
  KFPredict([models[j] EXCEPT
               !.state = x0,
               !.covariance = WeightedCovariance(models, x0, w1, w2)])

Mixed(models, j, w1, w2) ==
  MixedAt(models, j, w1, w2,
          WeightedState(getState(models[1]), getState(models[2]), w1, w2))

\* one pass of predict's loop: model j is mixed from the models as they are
\* now and predicted in place
MixAndPredict(models, Pi, mu, j) ==
  [models EXCEPT ![j] = Mixed(models, j, MixWeight(Pi, mu, 1, j),
                              MixWeight(Pi, mu, 2, j))]

\* IMMFilter.predict
IMMPredict(f) ==
  IF ~f.initialized THEN f
  ELSE _combineByMu(
         [f EXCEPT !.models =
            MixAndPredict(MixAndPredict(f.models, f.Pi, f.mu, 1),
                          f.Pi, f.mu, 2)])

\* q = y^T Sinv y as update writes it
QuadraticForm(y0, y1, Sinv) ==
  FAdd(FMul(y0, FAdd(FMul(Sinv[1][1], y0), FMul(Sinv[1][2], y1))),
       FMul(y1, FAdd(FMul(Sinv[2][1], y0), FMul(Sinv[2][2], y1))))

\* Math.exp(-0.5*Math.max(0,q)) / Math.sqrt(Math.max(detS,1e-9))
LikelihoodOf(q, detS) ==
  FDiv(FExp(FMul(FNeg(Half), FMax(Zero, q))), FSqrt(FMax(detS, Eps9)))

\* like[j] of update, for the model m just updated
Likelihood(m) ==
  LikelihoodOf(QuadraticForm(m.lastInnovation[1][1], m.lastInnovation[2][1],
                             inverse2x2(m.lastInnovationCovariance)),
               Det2(m.lastInnovationCovariance))

\* the new mu from the two products like[j]*mixPrior[j] and their norm
MuOver(a, b, norm) == <<FDiv(a, norm), FDiv(b, norm)>>

MuFrom(a, b) == MuOver(a, b, FAdd(FAdd(a, b), Eps12))

\* this.mu as update assigns it
UpdatedMu(models, Pi, mu) ==
  MuFrom(FMul(Likelihood(models[1]), MixPrior(Pi, mu, 1)),
         FMul(Likelihood(models[2]), MixPrior(Pi, mu, 2)))

\* jStar with ties going to model 1
ActiveModelStrict(mu) == IF FGt(mu[1], mu[2]) THEN 1 ELSE 2

\* jStar of update, counted from 1
ActiveModel(mu) == IF FGe(mu[1], mu[2]) THEN 1 ELSE 2

\* the assignments of update after its loop, given the new mu
Reweighted(f, models, mu, m) ==
  _combineByMu([f EXCEPT !.models = models, !.mu = mu,
                         !.lastInnovation = m.lastInnovation,
                         !.lastInnovationCovariance = m.lastInnovationCovariance,
                         !.lastKalmanGain = m.lastKalmanGain])

WithMu(f, models, mu) == Reweighted(f, models, mu, models[ActiveModel(mu)])

WithModels(f, models) == WithMu(f, models, UpdatedMu(models, f.Pi, f.mu))

\* IMMFilter.update
IMMUpdate(f, z) ==
  IF ~f.initialized THEN f
  ELSE WithModels(f, <<KFUpdate(f.models[1], z), KFUpdate(f.models[2], z)>>)

\* IMMFilter.getPosition
IMMGetPosition(f) ==
  IF f.state = Null THEN Null ELSE <<f.state[1][1], f.state[2][1]>>

\* IMMFilter.getPositionCovariance
IMMGetPositionCovariance(f) ==
  IF f.covariance = Null THEN Null
  ELSE extractSubmatrix(f.covariance, 0, 1, 0, 1)

(***************************************************************************)
(* FilterRegistry: the two entries the application registers.              *)
(***************************************************************************)
RegisteredKeys == {"kalman-2d", "imm"}

\* createInstance of the 'kalman-2d' entry
CreateKalman2D(config) == KalmanFilter2D(config)

\* createInstance of the 'imm' entry
CreateIMM(config) ==
  IMMFilter([dt |-> config.dt,
             measurementNoise |-> config.measurementNoise,
             processNoiseSlow |-> FMax(Tenth, FMul(config.processNoise, Half)),
             processNoiseFast |-> FMul(config.processNoise, FromInt(3)),
             trans |-> << <<Lit(94, 100), Lit(6, 100)>>,
                          <<Lit(6, 100), Lit(94, 100)>> >>])

\* the diagonal matrix with diagonal d
Diagonal(d) ==
  [i \in 1..Len(d) |-> [j \in 1..Len(d) |-> IF i = j THEN d[i] ELSE Zero]]

\* SimulationController.buildInitialCovariance
buildInitialCovariance(measVar) ==
  Diagonal(<<FMul(measVar, FromInt(4)), FMul(measVar, FromInt(4)),
             FromInt(1000), FromInt(1000), FromInt(10000), FromInt(10000)>>)

(* The estimators driven directly: a KalmanFilter2D and an IMMFilter      *)
(***************************************************************************)
(* The estimators driven directly: a KalmanFilter2D and an IMMFilter      *)
(* receive the same calls.                                                 *)
(***************************************************************************)
\* kf, imm: the two estimators; lastCall, lastArgs: the most recent call and
\* its arguments; nCalls: the number of calls made so far
VARIABLES kf, imm, lastCall, lastArgs, nCalls

filterVars == <<kf, imm, lastCall, lastArgs, nCalls>>

\* config, dom: the controller's configuration and the noise inputs of the page
\* filterType, trajectoryType, filter: the controller's fields
\* noise: the stream of standard normal draws NoiseUtils.gaussian will return
\* groundTruth .. confidenceHistory: the controller's history arrays
\* t .. buffer: the locals of generateData
\* pc: "running" inside the loop, "idle" after it, "thrown" after an exception
\* of the loop, "unknownFilterType" after the error of FilterRegistry
\* tickCalls: the calls made on the filter during the latest iteration
\* registry: the keys of FilterRegistry's map of registered filters
\* firstRun: the inputs and the snapshots of the first generateData that
\* returned (a history variable, which no action reads back into the program)
VARIABLES config, dom, filterType, trajectoryType, filter, noise,
          groundTruth, measurements, estimates, covariances, filterStates,
          errorHistory, confidenceHistory,
          t, lastMeasurementTime, lastInnovation, lastKalmanGain,
          lastInnovationCovariance, coverageHits, coverageTotal, buffer,
          pc, tickCalls, registry, firstRun

simVars ==
  <<config, dom, filterType, trajectoryType, filter, noise,
    groundTruth, measurements, estimates, covariances, filterStates,
    errorHistory, confidenceHistory,
    t, lastMeasurementTime, lastInnovation, lastKalmanGain,
    lastInnovationCovariance, coverageHits, coverageTotal, buffer,
    pc, tickCalls, registry, firstRun>>

\* heap: the arrays allocated so far; heap[id] counts the element stores made
\* into array id.  env: the array each field and local holds, 0 for null.
\* inited: the initialized flag of the estimator and of its two sub-models.
\* estType: the class of the estimator.  passed: the arrays handed to
\* initialize, each with its count of stores at that moment.  refCalls: the
\* calls made so far.  loop: the position, the counters and the history
\* arrays of generateData, by identity
VARIABLES heap, env, inited, estType, passed, refCalls, loop

refVars == <<heap, env, inited, estType, passed, refCalls, loop>>

vars == <<filterVars, simVars, refVars>>

\* the identity variables while the values are followed
NoReferences ==
  /\ heap = <<>> /\ env = <<>> /\ inited = <<>> /\ estType = "none"
  /\ passed = {} /\ refCalls = <<>> /\ loop = <<>>

\* firstRun before any generateData has returned
NoRun == [inputs |-> <<>>, page |-> <<>>, snapshots |-> <<>>]

\* what a run of generateData reads: the configuration, the noise inputs of
\* the page, the filter and trajectory types and the stream of draws
RunInputs ==
  <<config, dom.measurementNoise, dom.processNoise, filterType,
    trajectoryType, noise>>

MaxCalls == 4

\* the KalmanFilter2D constructor's defaults: dt 0.05, measurementNoise 15,
\* processNoise 1
DefaultConfig ==
  [dt |-> Lit(1, 20), measurementNoise |-> FromInt(15), processNoise |-> One]

ColumnVector(s) == [i \in 1..Len(s) |-> <<FromInt(s[i])>>]

\* initial states and covariances handed to initialize
InitialStates ==
  {ColumnVector(<<0, 0, 0, 0, 0, 0>>), ColumnVector(<<100, -50, 3, 0, 0, 1>>)}
InitialCovariances == {buildInitialCovariance(FromInt(225))}

\* measurements: near the initial states, and far from every prediction
NearMeasurements == {ColumnVector(<<2, -1>>)}
FarMeasurements == {ColumnVector(<<100000, 0>>)}
Measurements == NearMeasurements \cup FarMeasurements

\* (measurementNoise, processNoise) pairs handed to updateNoise
NoisePairs == {<<FromInt(3), FromInt(4)>>}

\* the controller's variables while the estimators are driven directly
NoSimulation ==
  /\ config = Null /\ dom = Null /\ filterType = "none"
  /\ trajectoryType = "none" /\ filter = Null /\ noise = <<>>
  /\ groundTruth = <<>> /\ measurements = <<>> /\ estimates = <<>>
  /\ covariances = <<>> /\ filterStates = <<>> /\ errorHistory = <<>>
  /\ confidenceHistory = <<>> /\ t = Zero /\ lastMeasurementTime = NegInf
  /\ lastInnovation = Null /\ lastKalmanGain = Null
  /\ lastInnovationCovariance = Null /\ coverageHits = 0
  /\ coverageTotal = 0 /\ buffer = <<>> /\ pc = "none" /\ tickCalls = <<>>
  /\ registry = RegisteredKeys /\ firstRun = NoRun

InitFilter ==
  /\ NoSimulation
  /\ NoReferences
  /\ kf = CreateKalman2D(DefaultConfig)
  /\ imm = CreateIMM(DefaultConfig)
  /\ lastCall = "new"
  /\ lastArgs = <<>>
  /\ nCalls = 0

CallInitialize(x0, P0) ==
  /\ nCalls < MaxCalls
  /\ kf' = setInitialState(kf, x0, P0)
  /\ imm' = IMMInitialize(imm, x0, P0)
  /\ lastCall' = "initialize"
  /\ lastArgs' = <<x0, P0>>
  /\ nCalls' = nCalls + 1
  /\ UNCHANGED <<simVars, refVars>>

CallPredict ==
  /\ nCalls < MaxCalls
  /\ kf' = KFPredict(kf)
  /\ imm' = IMMPredict(imm)
  /\ lastCall' = "predict"
  /\ lastArgs' = <<>>
  /\ nCalls' = nCalls + 1
  /\ UNCHANGED <<simVars, refVars>>

CallUpdate(z) ==
  /\ nCalls < MaxCalls
  /\ kf' = KFUpdate(kf, z)
  /\ imm' = IMMUpdate(imm, z)
  /\ lastCall' = "update"
  /\ lastArgs' = <<z>>
  /\ nCalls' = nCalls + 1
  /\ UNCHANGED <<simVars, refVars>>

CallUpdateNoise(r, q) ==
  /\ nCalls < MaxCalls
  /\ kf' = KFUpdateNoise(kf, r, q)
  /\ imm' = IMMUpdateNoise(imm, r, q)
  /\ lastCall' = "updateNoise"
  /\ lastArgs' = <<r, q>>
  /\ nCalls' = nCalls + 1
  /\ UNCHANGED <<simVars, refVars>>

NextFilter ==
  \/ \E x0 \in InitialStates, P0 \in InitialCovariances : CallInitialize(x0, P0)
  \/ CallPredict
  \/ \E z \in Measurements : CallUpdate(z)
  \/ \E n \in NoisePairs : CallUpdateNoise(n[1], n[2])

SpecFilter == InitFilter /\ [][NextFilter]_vars


(***************************************************************************)
(* SimulationController.generateData.  One Tick is one iteration of its    *)
(* loop; the run ends by leaving the loop or by an exception.              *)
(***************************************************************************)

\* the scale createTrajectoryGenerator hands to every generator
Scale == FromInt(150)

\* ConstantVelocityGenerator.generatePosition
ConstantVelocityPosition(time, maxTime) ==
  <<FAdd(FNeg(Scale),
         FMul(FMul(FromInt(2), Scale),
              FMin(FMax(FDiv(time, maxTime), Zero), One))),
    Zero>>

\* the table of StepFunctionGenerator.generatePosition
StepPositions ==
  << <<FNeg(Scale), FMul(FNeg(Scale), Half)>>, <<Scale, FMul(FNeg(Scale), Half)>>,
     <<FNeg(Scale), FMul(Scale, Half)>>, <<Scale, FMul(Scale, Half)>>,
     <<Zero, FNeg(Scale)>>, <<Zero, Scale>> >>

\* StepFunctionGenerator.generatePosition
StepFunctionPosition(time, maxTime) ==
  StepPositions[(FloorInt(FDiv(time, FDiv(maxTime, FromInt(6)))) % 6) + 1]

\* generatePosition of a TrajectoryGenerator subclass that stays at the
\* origin, installed in the controller's field trajectoryGenerator
StationaryPosition == <<Zero, Zero>>

TrajectoryTypes == {"constantvelocity", "stepfunction", "stationary"}

\* trajectoryGenerator.generatePosition(t), for the generator
\* createTrajectoryGenerator builds for the trajectory type
generatePosition(type, time, maxTime) ==
  IF type = "stepfunction" THEN StepFunctionPosition(time, maxTime)
  ELSE IF type = "stationary" THEN StationaryPosition
  ELSE ConstantVelocityPosition(time, maxTime)

\* addGaussianNoise with draws that are not multiplied by sigma
addGaussianNoiseUnscaled(position, sigma, g) ==
  <<FAdd(position[1], g[1]), FAdd(position[2], g[2])>>

\* NoiseUtils.addGaussianNoise; g holds the two standard normal draws, which
\* gaussian multiplies by sigma
addGaussianNoise(position, sigma, g) ==
  <<FAdd(position[1], FMul(g[1], sigma)), FAdd(position[2], FMul(g[2], sigma))>>

\* the Error thrown by FilterRegistry.createFilter
UnknownFilterType(filterKey) ==
  [error |-> "Unknown filter type", key |-> filterKey]

IsError(value) == "error" \in DOMAIN value

\* createFilter with the standard Kalman filter as the fallback of a key
\* that has no entry
RegistryCreateFilterFallback(filterKey, filterConfig) ==
  IF filterKey = "imm" THEN CreateIMM(filterConfig)
  ELSE CreateKalman2D(filterConfig)

\* FilterRegistry.createFilter: the instance, or the error it throws
RegistryCreateFilter(filterKey, filterConfig) ==
  IF filterKey \notin registry THEN UnknownFilterType(filterKey)
  ELSE IF filterKey = "imm" THEN CreateIMM(filterConfig)
  ELSE CreateKalman2D(filterConfig)

\* SimulationController.createFilter
createFilter(type, cfg, d) ==
  RegistryCreateFilter(type, [dt |-> cfg.dt,
                              measurementNoise |-> d.measurementNoise,
                              processNoise |-> d.processNoise])

\* SimulationController.updateMeasurementRate
updateMeasurementRate(cfg) ==
  [cfg EXCEPT !.measurementRate = FMul(cfg.dt, cfg.measurementRatio)]

\* the test with the half-step tolerance dropped
MeasurementFiresStrict(time, last, cfg) ==
  FGt(FSub(time, last), cfg.measurementRate)

\* the test of generateData that decides whether a measurement arrives at t
MeasurementFires(time, last, cfg) ==
  FGe(FSub(time, last), FSub(cfg.measurementRate, FDiv(cfg.dt, FromInt(2))))

\* the filter's predict, update, initialize by the class of the instance
FilterPredict(type, f) == IF type = "imm" THEN IMMPredict(f) ELSE KFPredict(f)
FilterUpdate(type, f, z) ==
  IF type = "imm" THEN IMMUpdate(f, z) ELSE KFUpdate(f, z)
FilterInitialize(type, f, x0, P0) ==
  IF type = "imm" THEN IMMInitialize(f, x0, P0) ELSE setInitialState(f, x0, P0)

\* the x0 of initializeFromBuffer from its m1, m2, m3
BufferState(m1, m2, m3) ==
  << <<FDiv(FAdd(FAdd(m1.pos[1], m2.pos[1]), m3.pos[1]), FromInt(3))>>,
     <<FDiv(FAdd(FAdd(m1.pos[2], m2.pos[2]), m3.pos[2]), FromInt(3))>>,
     <<Zero>>, <<Zero>>, <<Zero>>, <<Zero>> >>

\* the call that ends initializeFromBuffer
InitializeWith(type, f, x0, P0) ==
  [thrown |-> FALSE, filter |-> FilterInitialize(type, f, x0, P0),
   calls |-> << <<"initialize", x0, P0>> >>]

\* SimulationController.initializeFromBuffer: buffer[n-3] and buffer[n-2] are
\* undefined when the buffer holds fewer than three entries, and reading
\* .pos of undefined throws a TypeError
initializeFromBuffer(type, f, buf, d) ==
  IF Len(buf) < 3 THEN [thrown |-> TRUE, filter |-> f, calls |-> <<>>]
  ELSE InitializeWith(type, f,
                      BufferState(buf[Len(buf) - 2], buf[Len(buf) - 1],
                                  buf[Len(buf)]),
                      buildInitialCovariance(FMul(d.measurementNoise,
                                                  d.measurementNoise)))

\* the bootstrap step of one iteration
Bootstrap(type, f, hadMeasurement, buf, bootstrapNeeded, d) ==
  IF hadMeasurement /\ ~f.initialized /\ Len(buf) >= bootstrapNeeded
  THEN initializeFromBuffer(type, f, buf, d)
  ELSE [thrown |-> FALSE, filter |-> f, calls |-> <<>>]

FilterPosition(type, f) ==
  IF type = "imm" THEN IMMGetPosition(f) ELSE getPosition(f)
FilterPositionCovariance(type, f) ==
  IF type = "imm" THEN IMMGetPositionCovariance(f)
  ELSE getPositionCovariance(f)

\* the argument of update: the latest measurement as a column
MeasurementColumn(last) == << <<last.pos[1]>>, <<last.pos[2]>> >>

\* the filter step with the two calls exchanged
RunFilterUpdateFirst(type, f, hadMeasurement, meas) ==
  IF ~f.initialized THEN [filter |-> f, calls |-> <<>>]
  ELSE IF hadMeasurement
  THEN [filter |-> FilterPredict(type,
                     FilterUpdate(type, f, MeasurementColumn(meas[Len(meas)]))),
        calls |-> << <<"update", MeasurementColumn(meas[Len(meas)])>>,
                     <<"predict">> >>]
  ELSE [filter |-> FilterPredict(type, f), calls |-> << <<"predict">> >>]

\* the filter step of one iteration: predict, then update with the latest
\* measurement when one arrived; calls lists the calls in the order made
RunFilter(type, f, hadMeasurement, meas) ==
  IF ~f.initialized THEN [filter |-> f, calls |-> <<>>]
  ELSE IF hadMeasurement
  THEN [filter |-> FilterUpdate(type, FilterPredict(type, f),
                                MeasurementColumn(meas[Len(meas)])),
        calls |-> << <<"predict">>,
                     <<"update", MeasurementColumn(meas[Len(meas)])>> >>]
  ELSE [filter |-> FilterPredict(type, f), calls |-> << <<"predict">> >>]

\* Math.sqrt(Math.pow(dx, 2) + Math.pow(dy, 2))
Distance(dx, dy) == FSqrt(FAdd(FMul(dx, dx), FMul(dy, dy)))

\* the position error of one iteration
PositionError(truth, position) ==
  Distance(FSub(truth[1], position[1]), FSub(truth[2], position[2]))

\* chi-square threshold, 2 degrees of freedom, 95%
Chi2 == Lit(5991, 1000)

\* confidence95 from the trace and determinant of the position covariance
MajorAxis(trace, det) ==
  FSqrt(FMax(Zero,
        FMul(FDiv(FAdd(trace,
                       FSqrt(FMax(Zero, FSub(FMul(trace, trace),
                                             FMul(FromInt(4), det))))),
                  FromInt(2)),
             Chi2)))

\* the 95% confidence bound of one iteration
Confidence95(covPos) ==
  MajorAxis(FAdd(covPos[1][1], covPos[2][2]),
            FSub(FMul(covPos[1][1], covPos[2][2]),
                 FMul(covPos[1][2], covPos[1][2])))

\* d2 from the residual (r0, r1) and the inverse Sinv
ResidualForm(r0, r1, Sinv) ==
  FAdd(FMul(r0, FAdd(FMul(Sinv[1][1], r0), FMul(Sinv[1][2], r1))),
       FMul(r1, FAdd(FMul(Sinv[2][1], r0), FMul(Sinv[2][2], r1))))

\* the squared Mahalanobis distance d2 of the position error
Mahalanobis(truth, position, covPos) ==
  ResidualForm(FSub(truth[1], position[1]), FSub(truth[2], position[2]),
               inverse2x2(covPos))

\* the coverage counters with the count taken whatever d2 is
CoverageUpdateAlways(hits, total, d2) ==
  [total |-> total + 1, hits |-> IF FLe(d2, Chi2) THEN hits + 1 ELSE hits]

\* the coverage counters with a hit counted and the total left alone
CoverageUpdateHitsOnly(hits, total, d2) ==
  IF IsFinite(d2)
  THEN [total |-> total, hits |-> IF FLe(d2, Chi2) THEN hits + 1 ELSE hits]
  ELSE [total |-> total, hits |-> hits]

\* the coverage counters after one iteration on an initialized filter
CoverageUpdate(hits, total, d2) ==
  IF IsFinite(d2)
  THEN [total |-> total + 1, hits |-> IF FLe(d2, Chi2) THEN hits + 1 ELSE hits]
  ELSE [total |-> total, hits |-> hits]

\* the coverage step of one iteration
Coverage(f, truth, position, covPos, hits, total) ==
  IF f.initialized /\ position # Null /\ covPos # Null
  THEN CoverageUpdate(hits, total, Mahalanobis(truth, position, covPos))
  ELSE [total |-> total, hits |-> hits]

\* the JavaScript object {}; an absent property reads as Null
EmptyObject == [k \in {} |-> Null]

\* the plotData entry of model j (0 or 1) of extractData
ModelPlotData(m, j, groundTruthNow) ==
  IF m.initialized /\ getPosition(m) # Null
  THEN << [series |-> IF j = 0 THEN "model0_error" ELSE "model1_error",
           value |-> PositionError(groundTruthNow, getPosition(m))] >>
  ELSE <<>>

\* immData with the plot data found; additionalPlotData is set only when
\* there is some
WithPlotData(f, plotData) ==
  IF plotData # <<>>
  THEN [modelProbabilities |-> f.mu,
        activeModel |-> IF FGe(f.mu[1], f.mu[2]) THEN 0 ELSE 1,
        additionalPlotData |-> plotData]
  ELSE [modelProbabilities |-> f.mu,
        activeModel |-> IF FGe(f.mu[1], f.mu[2]) THEN 0 ELSE 1]

\* extractData of the 'imm' entry; the field modelEntropy, which nothing
\* of the controller reads, is not part of the record
IMMExtractData(f, context) ==
  IF ~f.initialized THEN EmptyObject
  ELSE IF "groundTruth" \in DOMAIN context
  THEN WithPlotData(f, ModelPlotData(f.models[1], 0, context.groundTruth)
                       \o ModelPlotData(f.models[2], 1, context.groundTruth))
  ELSE WithPlotData(f, <<>>)

\* FilterRegistry.extractFilterData: it takes the key and the instance, and
\* calls the entry's extractData with the instance only, so that the context
\* is the default {}; the 'kalman-2d' entry returns {}
extractFilterData(filterKey, filterInstance) ==
  IF filterKey = "imm" THEN IMMExtractData(filterInstance, EmptyObject)
  ELSE EmptyObject

Flatten(column) == [i \in 1..Len(column) |-> column[i][1]]

\* the object filterState of one iteration, given filterSpecificData
FilterStateWith(f, innov, gain, innovCov, had, buf, needed, hits, total, data) ==
  [state |-> IF f.initialized THEN Flatten(getState(f)) ELSE Null,
   covariance |-> IF f.initialized
                  THEN extractSubmatrix(f.covariance, 0, 1, 0, 1) ELSE Null,
   fullCovariance |-> IF f.initialized THEN f.covariance ELSE Null,
   innovation |-> innov,
   kalmanGain |-> gain,
   innovationCovariance |-> innovCov,
   hadMeasurement |-> had,
   initialized |-> f.initialized,
   bootstrapCount |-> IF Len(buf) < needed THEN Len(buf)
                      ELSE needed,
   bootstrapNeeded |-> needed,
   coveragePct |-> IF total > 0 THEN FDiv(FromInt(hits), FromInt(total))
                   ELSE Null,
   filterSpecificData |-> data,
   additionalPlotData |-> IF "additionalPlotData" \in DOMAIN data
                          THEN data.additionalPlotData ELSE Null]

\* the snapshot generateData stores for the panel
FilterState(type, f, innov, gain, innovCov, had, buf, needed, hits, total) ==
  FilterStateWith(f, innov, gain, innovCov, had, buf, needed, hits, total,
                  extractFilterData(type, f))

\* one iteration's statistics and snapshot with the innovation, gain and
\* innovation covariance read from the filter alone, nothing remembered
RecordWithoutMemory(truth, hadMeasurement, buf, f) ==
  \E position \in {FilterPosition(filterType, f)},
     covPos \in {FilterPositionCovariance(filterType, f)},
     innovation \in {IF f.initialized /\ f.lastInnovation # Null
                     THEN Flatten(f.lastInnovation) ELSE Null},
     gain \in {IF f.initialized /\ f.lastKalmanGain # Null
               THEN f.lastKalmanGain ELSE Null},
     innovationCov \in {IF f.initialized /\ f.lastInnovationCovariance # Null
                        THEN f.lastInnovationCovariance
                        ELSE Null} :
    \E coverage \in {Coverage(f, truth, position, covPos,
                              coverageHits, coverageTotal)} :
       /\ lastInnovation' = innovation
       /\ lastKalmanGain' = gain
       /\ lastInnovationCovariance' = innovationCov
       /\ estimates' = Append(estimates,
                              IF f.initialized THEN position ELSE Null)
       /\ covariances' = Append(covariances,
                                IF f.initialized THEN covPos ELSE Null)
       /\ errorHistory' =
            Append(errorHistory,
                   IF f.initialized /\ position # Null /\ covPos # Null
                   THEN PositionError(truth, position) ELSE Null)
       /\ confidenceHistory' =
            Append(confidenceHistory,
                   IF f.initialized /\ position # Null /\ covPos # Null
                   THEN Confidence95(covPos) ELSE Null)
       /\ coverageHits' = coverage.hits
       /\ coverageTotal' = coverage.total
       /\ filterStates' =
            Append(filterStates,
                   FilterState(filterType, f, innovation, gain, innovationCov,
                               hadMeasurement, buf,
                               config.bootstrapMeasurements,
                               coverage.hits, coverage.total))

\* the statistics and the snapshot of one iteration; f is the filter after
\* the iteration's bootstrap, predict and update
Record(truth, hadMeasurement, buf, f) ==
  \E position \in {FilterPosition(filterType, f)},
     covPos \in {FilterPositionCovariance(filterType, f)},
     innovation \in {IF f.initialized /\ f.lastInnovation # Null
                     THEN Flatten(f.lastInnovation) ELSE lastInnovation},
     gain \in {IF f.initialized /\ f.lastKalmanGain # Null
               THEN f.lastKalmanGain ELSE lastKalmanGain},
     innovationCov \in {IF f.initialized /\ f.lastInnovationCovariance # Null
                        THEN f.lastInnovationCovariance
                        ELSE lastInnovationCovariance} :
    \E coverage \in {Coverage(f, truth, position, covPos,
                              coverageHits, coverageTotal)} :
       /\ lastInnovation' = innovation
       /\ lastKalmanGain' = gain
       /\ lastInnovationCovariance' = innovationCov
       /\ estimates' = Append(estimates,
                              IF f.initialized THEN position ELSE Null)
       /\ covariances' = Append(covariances,
                                IF f.initialized THEN covPos ELSE Null)
       /\ errorHistory' =
            Append(errorHistory,
                   IF f.initialized /\ position # Null /\ covPos # Null
                   THEN PositionError(truth, position) ELSE Null)
       /\ confidenceHistory' =
            Append(confidenceHistory,
                   IF f.initialized /\ position # Null /\ covPos # Null
                   THEN Confidence95(covPos) ELSE Null)
       /\ coverageHits' = coverage.hits
       /\ coverageTotal' = coverage.total
       /\ filterStates' =
            Append(filterStates,
                   FilterState(filterType, f, innovation, gain, innovationCov,
                               hadMeasurement, buf,
                               config.bootstrapMeasurements,
                               coverage.hits, coverage.total))

\* the measurement of one iteration: the truth with the next draws added
Measure(truth) ==
  [time |-> t,
   pos |-> addGaussianNoise(truth, dom.measurementNoise,
                            noise[Len(measurements) + 1])]

\* one iteration of the loop of generateData
Tick ==
  /\ pc = "running"
  /\ FLe(t, FAdd(config.maxTime, Eps9))
  /\ \E truth \in {generatePosition(trajectoryType, t, config.maxTime)},
        hadMeasurement \in {MeasurementFires(t, lastMeasurementTime, config)} :
       \E entry \in {Measure(truth)} :
         \E meas \in {IF hadMeasurement THEN Append(measurements, entry)
                      ELSE measurements},
            buf \in {IF hadMeasurement THEN Append(buffer, entry)
                     ELSE buffer} :
           /\ groundTruth' = Append(groundTruth, truth)
           /\ measurements' = meas
           /\ buffer' = buf
           /\ lastMeasurementTime' = IF hadMeasurement THEN t
                                     ELSE lastMeasurementTime
           /\ \E boot \in {Bootstrap(filterType, filter, hadMeasurement, buf,
                                     config.bootstrapMeasurements, dom)} :
                IF boot.thrown
                THEN /\ pc' = "thrown"
                     /\ tickCalls' = boot.calls
                     /\ UNCHANGED <<filter, estimates, covariances,
                                    filterStates, errorHistory,
                                    confidenceHistory, t, lastInnovation,
                                    lastKalmanGain, lastInnovationCovariance,
                                    coverageHits, coverageTotal>>
                ELSE \E run \in {RunFilter(filterType, boot.filter,
                                           hadMeasurement, meas)} :
                       /\ pc' = "running"
                       /\ filter' = run.filter
                       /\ tickCalls' = boot.calls \o run.calls
                       /\ Record(truth, hadMeasurement, buf, run.filter)
                       /\ t' = FAdd(t, config.dt)
  /\ UNCHANGED <<config, dom, filterType, trajectoryType, noise, registry,
                 firstRun, filterVars, refVars>>

\* the loop ends when t has passed maxTime; generateData returns
Return ==
  /\ pc = "running"
  /\ ~FLe(t, FAdd(config.maxTime, Eps9))
  /\ pc' = "idle"
  /\ tickCalls' = <<>>
  /\ firstRun' = IF firstRun = NoRun
                 THEN [inputs |-> RunInputs, page |-> dom,
                       snapshots |-> filterStates]
                 ELSE firstRun
  /\ UNCHANGED <<config, dom, filterType, trajectoryType, filter, noise,
                 groundTruth, measurements, estimates, covariances,
                 filterStates, errorHistory, confidenceHistory, t,
                 lastMeasurementTime, lastInnovation, lastKalmanGain,
                 lastInnovationCovariance, coverageHits, coverageTotal,
                 buffer, registry, filterVars, refVars>>

\* number of time steps of a run, largest measurement ratio and largest
\* number of bootstrap measurements of the configurations explored
MaxTicks == 6
MaxRatio == 2
MaxBootstrap == 4

\* the time step; a power of two, so that the tick times are exact
Dt == Lit(1, 16)

Configs ==
  {updateMeasurementRate([maxTime |-> FMul(FromInt(MaxTicks), Dt),
                          dt |-> Dt,
                          measurementRatio |-> FromInt(n),
                          bootstrapMeasurements |-> b,
                          measurementRate |-> Zero]) :
     n \in 1..MaxRatio, b \in 1..MaxBootstrap}

\* values of the measurementNoise and processNoise inputs of the page
DomInputs ==
  {[measurementNoise |-> r, processNoise |-> One] :
     r \in {Zero, One, FromInt(15)}}

\* streams of standard normal draws: all zero, and an alternating one
NoiseStreams ==
  {[i \in 1..(MaxTicks + 1) |-> <<Zero, Zero>>],
   [i \in 1..(MaxTicks + 1) |->
      IF i % 2 = 1 THEN <<One, FromInt(-2)>> ELSE <<Lit(-1, 2), Lit(1, 4)>>]}

\* the filter variables while the controller runs: no direct calls
NoFilterCalls ==
  /\ kf = Null
  /\ imm = Null
  /\ lastCall = "none"
  /\ lastArgs = <<>>
  /\ nCalls = 0

\* the state in which generateData enters its loop
Init ==
  /\ registry = RegisteredKeys
  /\ config \in Configs
  /\ dom \in DomInputs
  /\ filterType \in RegisteredKeys
  /\ trajectoryType \in TrajectoryTypes
  /\ noise \in NoiseStreams
  /\ filter = createFilter(filterType, config, dom)
  /\ groundTruth = <<>>
  /\ measurements = <<>>
  /\ estimates = <<>>
  /\ covariances = <<>>
  /\ filterStates = <<>>
  /\ errorHistory = <<>>
  /\ confidenceHistory = <<>>
  /\ t = Zero
  /\ lastMeasurementTime = NegInf
  /\ lastInnovation = Null
  /\ lastKalmanGain = Null
  /\ lastInnovationCovariance = Null
  /\ coverageHits = 0
  /\ coverageTotal = 0
  /\ buffer = <<>>
  /\ pc = "running"
  /\ tickCalls = <<>>
  /\ firstRun = NoRun
  /\ NoFilterCalls
  /\ NoReferences

Next == Tick \/ Return

Spec == Init /\ [][Next]_vars

(***************************************************************************)
(* The operations of the page on a constructed SimulationController.  The  *)
(* handlers run to completion one after the other, so that an operation    *)
(* starts only when no generateData is in its loop.                        *)
(***************************************************************************)
\* pc when no handler is running
Settled == {"idle", "unknownFilterType"}

\* keys handed to setFilterType: the registered ones and 'kf', the value the
\* page falls back to, which has no entry
FilterKeys == RegisteredKeys \cup {"kf"}

\* the trajectory types of createTrajectoryGenerator that are modelled
BuiltInTrajectories == {"constantvelocity", "stepfunction"}

\* generateData that keeps the filter the controller holds
generateDataKeepingFilter(prior, draws) ==
  /\ groundTruth' = <<>>
  /\ measurements' = <<>>
  /\ estimates' = <<>>
  /\ covariances' = <<>>
  /\ filterStates' = <<>>
  /\ errorHistory' = <<>>
  /\ confidenceHistory' = <<>>
  /\ filter' = prior
  /\ noise' = draws
  /\ t' = Zero
  /\ lastMeasurementTime' = NegInf
  /\ lastInnovation' = Null
  /\ lastKalmanGain' = Null
  /\ lastInnovationCovariance' = Null
  /\ coverageHits' = 0
  /\ coverageTotal' = 0
  /\ buffer' = <<>>
  /\ tickCalls' = <<>>
  /\ pc' = "running"

\* generateData up to its loop: the histories are emptied, the filter is
\* created anew and the locals are initialized; prior is the filter the
\* controller holds when generateData is called, draws the standard normal
\* draws of the run.  When createFilter throws, the histories are empty
\* already, the filter stays and the locals are never initialized.
generateData(prior, draws) ==
  /\ groundTruth' = <<>>
  /\ measurements' = <<>>
  /\ estimates' = <<>>
  /\ covariances' = <<>>
  /\ filterStates' = <<>>
  /\ errorHistory' = <<>>
  /\ confidenceHistory' = <<>>
  /\ \E created \in {createFilter(filterType', config', dom')} :
       IF IsError(created)
       THEN /\ filter' = prior
            /\ pc' = "unknownFilterType"
            /\ UNCHANGED <<noise, t, lastMeasurementTime, lastInnovation,
                           lastKalmanGain, lastInnovationCovariance,
                           coverageHits, coverageTotal, buffer, tickCalls>>
       ELSE /\ filter' = created
            /\ noise' = draws
            /\ t' = Zero
            /\ lastMeasurementTime' = NegInf
            /\ lastInnovation' = Null
            /\ lastKalmanGain' = Null
            /\ lastInnovationCovariance' = Null
            /\ coverageHits' = 0
            /\ coverageTotal' = 0
            /\ buffer' = <<>>
            /\ tickCalls' = <<>>
            /\ pc' = "running"

\* SimulationController.setFilterType: the key is stored first; createFilter
\* then throws for a key without entry, before generateData is reached
setFilterType(filterKey) ==
  /\ pc \in Settled
  /\ filterType' = filterKey
  /\ UNCHANGED <<config, dom, trajectoryType, registry, firstRun,
                 filterVars, refVars>>
  /\ IF IsError(createFilter(filterKey, config, dom))
     THEN /\ pc' = "unknownFilterType"
          /\ UNCHANGED <<filter, noise, groundTruth, measurements, estimates,
                         covariances, filterStates, errorHistory,
                         confidenceHistory, t, lastMeasurementTime,
                         lastInnovation, lastKalmanGain,
                         lastInnovationCovariance, coverageHits,
                         coverageTotal, buffer, tickCalls>>
     ELSE \E draws \in NoiseStreams :
            generateData(createFilter(filterKey, config, dom), draws)

\* SimulationController.setTrajectoryType
setTrajectoryType(type) ==
  /\ pc \in Settled
  /\ trajectoryType' = type
  /\ UNCHANGED <<config, dom, filterType, registry, firstRun,
                 filterVars, refVars>>
  /\ \E draws \in NoiseStreams : generateData(filter, draws)

\* FilterRegistry.updateNoise: the instance after the call, or the error
RegistryUpdateNoise(filterKey, instance, measurementNoise, processNoise) ==
  IF filterKey \notin registry
  THEN [error |-> "does not support noise updates", key |-> filterKey]
  ELSE IF filterKey = "imm"
  THEN IMMUpdateNoise(instance, measurementNoise, processNoise)
  ELSE KFUpdateNoise(instance, measurementNoise, processNoise)

\* the filter after the try block of updateNoiseParams, which catches the
\* error of the registry
NoiseUpdated(filterKey, instance, inputs) ==
  IF IsError(RegistryUpdateNoise(filterKey, instance, inputs.measurementNoise,
                                 inputs.processNoise))
  THEN instance
  ELSE RegistryUpdateNoise(filterKey, instance, inputs.measurementNoise,
                           inputs.processNoise)

\* the handler of the measurementNoise input, which takes the value r, and
\* SimulationController.updateNoiseParams
updateNoiseParams(r) ==
  /\ pc \in Settled
  /\ dom' = [dom EXCEPT !.measurementNoise = r]
  /\ config' = updateMeasurementRate(
                 [config EXCEPT !.measurementRatio = dom.measurementRatio])
  /\ UNCHANGED <<filterType, trajectoryType, registry, firstRun,
                 filterVars, refVars>>
  /\ \E draws \in NoiseStreams :
       generateData(NoiseUpdated(filterType, filter, dom'), draws)

\* the handler of the measurementRatio input, which takes the value ratio
measurementRatioInput(ratio) ==
  /\ pc \in Settled
  /\ dom' = [dom EXCEPT !.measurementRatio = ratio]
  /\ config' = updateMeasurementRate([config EXCEPT !.measurementRatio = ratio])
  /\ UNCHANGED <<filterType, trajectoryType, registry, firstRun,
                 filterVars, refVars>>
  /\ \E draws \in NoiseStreams : generateData(filter, draws)

\* SimulationController.reset
reset ==
  /\ pc \in Settled
  /\ UNCHANGED <<config, dom, filterType, trajectoryType, registry,
                 firstRun, filterVars, refVars>>
  /\ \E draws \in NoiseStreams : generateData(filter, draws)

\* the configuration of a controller constructed with the defaults
\* measurementRatio 2.0 and bootstrapMeasurements 3
ControlConfig ==
  updateMeasurementRate([maxTime |-> FMul(FromInt(MaxTicks), Dt),
                         dt |-> Dt,
                         measurementRatio |-> FromInt(2),
                         bootstrapMeasurements |-> 3,
                         measurementRate |-> Zero])

\* values of the measurementRatio and measurementNoise inputs
Ratios == {FromInt(n) : n \in 1..MaxRatio}
NoiseValues == {One, FromInt(15)}

\* the inputs of the page when the controller is constructed: the
\* measurementRatio input need not hold the ratio of the configuration
ControlInputs ==
  [measurementNoise |-> FromInt(15), processNoise |-> One,
   measurementRatio |-> One]

\* a constructed controller whose generateData enters its loop
InitControl ==
  /\ registry = RegisteredKeys
  /\ config = ControlConfig
  /\ dom = ControlInputs
  /\ filterType \in RegisteredKeys
  /\ trajectoryType = "constantvelocity"
  /\ noise \in NoiseStreams
  /\ filter = createFilter(filterType, config, dom)
  /\ groundTruth = <<>>
  /\ measurements = <<>>
  /\ estimates = <<>>
  /\ covariances = <<>>
  /\ filterStates = <<>>
  /\ errorHistory = <<>>
  /\ confidenceHistory = <<>>
  /\ t = Zero
  /\ lastMeasurementTime = NegInf
  /\ lastInnovation = Null
  /\ lastKalmanGain = Null
  /\ lastInnovationCovariance = Null
  /\ coverageHits = 0
  /\ coverageTotal = 0
  /\ buffer = <<>>
  /\ pc = "running"
  /\ tickCalls = <<>>
  /\ firstRun = NoRun
  /\ NoFilterCalls
  /\ NoReferences

NextControl ==
  \/ Tick
  \/ Return
  \/ \E filterKey \in FilterKeys : setFilterType(filterKey)
  \/ \E type \in BuiltInTrajectories : setTrajectoryType(type)
  \/ \E r \in NoiseValues : updateNoiseParams(r)
  \/ \E ratio \in Ratios : measurementRatioInput(ratio)
  \/ reset

SpecControl == InitControl /\ [][NextControl]_vars

(***************************************************************************)
(* The degenerate IMM of the comparison with a standalone filter: Pi is    *)
(* the identity, mu is set to [1, 0], and the standalone KalmanFilter2D    *)
(* has model 0's parameters.                                               *)
(***************************************************************************)
DegenerateConfig ==
  [dt |-> DefaultConfig.dt,
   measurementNoise |-> DefaultConfig.measurementNoise,
   processNoiseSlow |-> Half,
   processNoiseFast |-> FromInt(3),
   trans |-> << <<One, Zero>>, <<Zero, One>> >>]

InitDegenerate ==
  /\ NoSimulation
  /\ NoReferences
  /\ kf = KalmanFilter2D([dt |-> DegenerateConfig.dt,
                          measurementNoise |-> DegenerateConfig.measurementNoise,
                          processNoise |-> DegenerateConfig.processNoiseSlow])
  /\ imm = [IMMFilter(DegenerateConfig) EXCEPT !.mu = <<One, Zero>>]
  /\ lastCall = "new"
  /\ lastArgs = <<>>
  /\ nCalls = 0

NextDegenerate ==
  \/ \E x0 \in InitialStates, P0 \in InitialCovariances : CallInitialize(x0, P0)
  \/ CallPredict
  \/ \E z \in Measurements : CallUpdate(z)

SpecDegenerate == InitDegenerate /\ [][NextDegenerate]_vars

(***************************************************************************)
(* Properties of the estimators                                            *)
(***************************************************************************)
\* the rounding the model's arithmetic allows on a quantity of magnitude 1
Rounding == Lit(1, 256)

\* |a - b| <= tol * max(1, |a|, |b|)
Near(a, b, tol) ==
  FLe(FAbs(FSub(a, b)), FMul(tol, FMax(One, FMax(FAbs(a), FAbs(b)))))

NearMatrix(A, B, tol) ==
  /\ Len(A) = Len(B)
  /\ \A i \in 1..Len(A) :
       /\ Len(A[i]) = Len(B[i])
       /\ \A j \in 1..Len(A[i]) : Near(A[i][j], B[i][j], tol)

Uninitialized(f) == ~f.initialized /\ f.state = Null /\ f.covariance = Null

\* C1: predict() and update(z) on an uninitialized KalmanFilter2D or IMMFilter
\* change nothing: state, covariance, the flag, the cached innovation, gain
\* and innovation covariance, and the IMM's mu and sub-models all stay as
\* they were, for any number and order of such calls.
C1_NoOpBeforeInitialize ==
  [][(Uninitialized(kf) /\ Uninitialized(imm)
        /\ lastCall' \in {"predict", "update"})
       => (kf' = kf /\ imm' = imm)]_filterVars

\* predict or update has been called at least twice on filters that were
\* never initialized
C1_Witness ==
  /\ nCalls >= 2
  /\ lastCall \in {"predict", "update"}
  /\ Uninitialized(kf)
  /\ Uninitialized(imm)

FlagMatchesState(f) ==
  f.initialized <=> (f.state # Null /\ f.covariance # Null)

\* C2: a filter is constructed Uninitialized; after any sequence of
\* initialize, predict, update and updateNoise calls the flag is true exactly
\* when state and covariance are non-null, a Ready filter never returns to
\* Uninitialized, and a Ready IMMFilter has both sub-models initialized.
C2_Lifecycle ==
  /\ [](/\ (nCalls = 0 => Uninitialized(kf) /\ Uninitialized(imm))
        /\ FlagMatchesState(kf)
        /\ FlagMatchesState(imm)
        /\ \A j \in 1..2 : FlagMatchesState(imm.models[j])
        /\ (imm.initialized => \A j \in 1..2 : imm.models[j].initialized))
  /\ [][(kf.initialized => kf'.initialized)
          /\ (imm.initialized => imm'.initialized)]_filterVars

\* both filters are Ready after an initialize followed by further calls
C2_Witness ==
  /\ nCalls >= 3
  /\ lastCall # "initialize"
  /\ kf.initialized
  /\ imm.initialized
  /\ imm.models[1].initialized
  /\ imm.models[2].initialized

\* C3: after every predict() and every update(z) of a Ready IMMFilter,
\* mu[0] >= 0, mu[1] >= 0 and mu[0] + mu[1] = 1 within 1e-9 (here: within
\* 1e-9 or the rounding of the model's arithmetic, whichever is larger),
\* also when both model likelihoods are extremely small or zero.
C3_MuIsDistribution ==
  (imm.initialized /\ lastCall \in {"predict", "update"}) =>
    /\ FGe(imm.mu[1], Zero)
    /\ FGe(imm.mu[2], Zero)
    /\ FLe(FAbs(FSub(FAdd(imm.mu[1], imm.mu[2]), One)), FMax(Eps9, Rounding))

\* C4: with Pi = identity and mu set to [1, 0], after every call of the same
\* initialize / predict / update sequence the IMM's combined state and
\* covariance equal those of the standalone KalmanFilter2D with model 0's
\* parameters (up to the rounding of the arithmetic), for every measurement
\* sequence, measurements far from the prediction included.
C4_DegenerateMatchesStandalone ==
  imm.initialized =>
    /\ kf.initialized
    /\ NearMatrix(imm.state, kf.state, Rounding)
    /\ NearMatrix(imm.covariance, kf.covariance, Rounding)

\* C5: IMMFilter.initialize(x0, P0), on a fresh filter or after earlier
\* predict/update calls have moved mu, leaves both sub-models with state x0
\* and covariance P0 and sets mu to [0.5, 0.5].
C5_InitializeResetsMu ==
  lastCall = "initialize" =>
    /\ \A j \in 1..2 : /\ imm.models[j].state = lastArgs[1]
                       /\ imm.models[j].covariance = lastArgs[2]
    /\ imm.mu = <<Half, Half>>

(***************************************************************************)
(* Properties of generateData                                              *)
(***************************************************************************)
Last(s) == s[Len(s)]

\* the number of ticks among the first k at which a measurement fired
Fired(k) == Cardinality({i \in 1..k : filterStates[i].hadMeasurement})

\* C6: the estimator is initialized on the tick at which the bootstrap buffer
\* first holds bootstrapNeeded measurements and not earlier: it is initialized
\* exactly when the buffer holds that many, the snapshot of tick k has
\* initialized = true exactly when at least bootstrapNeeded measurements fired
\* at ticks <= k, and with a measurement on every tick and bootstrapNeeded = 3
\* the first initialized snapshot is that of tick index 2.
C6_BootstrapTiming ==
  /\ filter.initialized <=> Len(buffer) >= config.bootstrapMeasurements
  /\ \A k \in 1..Len(filterStates) :
       filterStates[k].initialized <=> Fired(k) >= config.bootstrapMeasurements
  /\ (config.measurementRatio = One /\ config.bootstrapMeasurements = 3) =>
       \A k \in 1..Len(filterStates) : filterStates[k].initialized <=> k - 1 >= 2

RECURSIVE SumPositions(_, _, _, _)
\* acc plus coordinate c of the buffered positions i, i+1, ...
SumPositions(buf, c, i, acc) ==
  IF i > Len(buf) THEN acc
  ELSE SumPositions(buf, c, i + 1, FAdd(acc, buf[i].pos[c]))

\* the average of coordinate c over all positions held in the buffer
AveragePosition(buf, c) ==
  FDiv(SumPositions(buf, c, 2, buf[1].pos[c]), FromInt(Len(buf)))

\* a measurement arrives in this step, the estimator is Uninitialized and the
\* buffer now holds bootstrapNeeded measurements
BootstrapFires ==
  /\ pc = "running"
  /\ ~filter.initialized
  /\ Len(buffer') = Len(buffer) + 1
  /\ Len(buffer') >= config.bootstrapMeasurements

\* C7: for every bootstrapNeeded >= 1, when bootstrap fires the estimator is
\* initialized with the average of all positions held in the buffer (up to
\* rounding), zero velocity and acceleration, and the diagonal covariance
\* [4r^2, 4r^2, 1000, 1000, 10000, 10000].
C7_BootstrapValue ==
  [][BootstrapFires =>
       /\ tickCalls' # <<>>
       /\ tickCalls'[1][1] = "initialize"
       /\ Near(tickCalls'[1][2][1][1], AveragePosition(buffer', 1), Rounding)
       /\ Near(tickCalls'[1][2][2][1], AveragePosition(buffer', 2), Rounding)
       /\ \A r \in 3..6 : tickCalls'[1][2][r][1] = Zero
       /\ tickCalls'[1][3] =
            Diagonal(<<FMul(FromInt(4), FMul(dom.measurementNoise,
                                             dom.measurementNoise)),
                       FMul(FromInt(4), FMul(dom.measurementNoise,
                                             dom.measurementNoise)),
                       FromInt(1000), FromInt(1000),
                       FromInt(10000), FromInt(10000)>>)]_vars

IsPredict(call) == call[1] = "predict"
IsUpdate(call) == call[1] = "update"

\* C8: on every tick where the estimator is Ready, the tick on which
\* bootstrap completes included, predict() is called exactly once, and
\* update(z) exactly once and after that predict exactly when a measurement
\* fired on the tick, z being that measurement; on a tick where the estimator
\* is not Ready neither is called.
C8_PerTickOrdering ==
  /\ (pc = "running" /\ filterStates # <<>>) =>
       IF filter.initialized
       THEN /\ Len(SelectSeq(tickCalls, IsPredict)) = 1
            /\ IF Last(filterStates).hadMeasurement
               THEN /\ Len(SelectSeq(tickCalls, IsUpdate)) = 1
                    /\ \E i, j \in 1..Len(tickCalls) :
                         /\ i < j
                         /\ tickCalls[i] = <<"predict">>
                         /\ tickCalls[j] =
                              <<"update",
                                << <<Last(measurements).pos[1]>>,
                                   <<Last(measurements).pos[2]>> >> >>
               ELSE SelectSeq(tickCalls, IsUpdate) = <<>>
       ELSE /\ SelectSeq(tickCalls, IsPredict) = <<>>
            /\ SelectSeq(tickCalls, IsUpdate) = <<>>
  /\ pc = "thrown" =>
       /\ ~filter.initialized
       /\ SelectSeq(tickCalls, IsPredict) = <<>>
       /\ SelectSeq(tickCalls, IsUpdate) = <<>>

\* the tick on which bootstrap completes: initialize, predict and update
C8_Witness ==
  /\ pc = "running"
  /\ Len(tickCalls) = 3
  /\ tickCalls[1][1] = "initialize"
  /\ Last(filterStates).hadMeasurement

\* the integer n with measurementRate = n * dt
RatioOf(cfg) == CHOOSE n \in 1..MaxRatio : FromInt(n) = cfg.measurementRatio

\* C9: a measurement fires at tick time t exactly when
\* t - lastMeasurementTime >= measurementRate - dt/2; the first tick fires,
\* and for measurementRate = n*dt measurements fire exactly at tick indices
\* 0, n, 2n, ... and at no other tick.
C9_MeasurementCadence ==
  /\ [][Len(groundTruth') = Len(groundTruth) + 1 =>
          (Len(measurements') = Len(measurements) + 1
             <=> FGe(FSub(t, lastMeasurementTime),
                     FSub(config.measurementRate,
                          FDiv(config.dt, FromInt(2)))))]_vars
  /\ [](/\ groundTruth # <<>> =>
             /\ measurements # <<>>
             /\ measurements[1].time = Zero
             /\ Len(measurements) =
                  ((Len(groundTruth) - 1) \div RatioOf(config)) + 1
        /\ \A i \in 1..Len(measurements) :
             measurements[i].time =
               FMul(FromInt((i - 1) * RatioOf(config)), config.dt)
        /\ \A k \in 1..Len(filterStates) :
             filterStates[k].hadMeasurement
               <=> (k - 1) % RatioOf(config) = 0)

\* with n = 2, measurements have fired at ticks 0, 2 and 4 and not at 1, 3
C9_Witness ==
  /\ config.measurementRatio = FromInt(2)
  /\ Len(groundTruth) >= 5
  /\ Len(measurements) >= 3

\* the squared Mahalanobis distance of the position error after this step
NextDistance ==
  Mahalanobis(Last(groundTruth'), FilterPosition(filterType, filter'),
              FilterPositionCovariance(filterType, filter'))

\* this step is a tick on which the estimator is initialized
InitializedTick ==
  Len(filterStates') = Len(filterStates) + 1 /\ filter'.initialized

ScaledIdentity2(r) == _mscale(identity(2), FMul(r, r))

\* the fields of a KalmanFilter2D that updateNoise has no business with
NoiseFrame(f) ==
  <<f.state, f.covariance, f.initialized, f.F, f.H, f.dt,
    f.lastInnovation, f.lastKalmanGain, f.lastInnovationCovariance>>

(***************************************************************************)
(* C15: KalmanFilter2D.updateNoise(r, q) replaces Q by the process noise   *)
(* matrix of q and R by r*r times the 2x2 identity, and leaves state,      *)
(* covariance, initialized, F, H and the cached innovation, gain and       *)
(* innovation covariance as they were, before and after initialization.    *)
(***************************************************************************)
C15_UpdateNoiseFrame ==
  [][lastCall' = "updateNoise" /\ nCalls' = nCalls + 1 =>
       /\ kf'.Q = ProcessNoiseMatrix(lastArgs'[2], kf.dt)
       /\ kf'.R = ScaledIdentity2(lastArgs'[1])
       /\ NoiseFrame(kf') = NoiseFrame(kf)]_vars

\* updateNoise on a Ready filter that holds a cached innovation, with
\* matrices that differ from the ones it was constructed with
C15_Witness ==
  /\ lastCall = "updateNoise"
  /\ kf.initialized
  /\ kf.lastInnovation # Null
  /\ kf.R # MeasurementNoiseMatrix(DefaultConfig.measurementNoise)

\* model j mixed from the models held at entry of predict, and predicted
MixedFromEntry(f, j) == MixAndPredict(f.models, f.Pi, f.mu, j)[j]

(***************************************************************************)
(* C19: in IMMFilter.predict() the mixed prior of both target models is    *)
(* computed from the states and covariances the two models held when       *)
(* predict() was entered: each model leaves predict() as the prediction of *)
(* the prior mixed from the entry models.                                  *)
(***************************************************************************)
C19_MixFromEntryModels ==
  [][lastCall' = "predict" /\ nCalls' = nCalls + 1 /\ imm.initialized =>
       /\ imm'.models[1] = MixedFromEntry(imm, 1)
       /\ imm'.models[2] = MixedFromEntry(imm, 2)]_vars

SumsToOne(a, b) == Near(FAdd(a, b), One, Rounding)

StochasticBank(f) ==
  /\ SumsToOne(f.mu[1], f.mu[2])
  /\ SumsToOne(f.Pi[1][1], f.Pi[1][2])
  /\ SumsToOne(f.Pi[2][1], f.Pi[2][2])

WeightsAreDistribution(f, j) ==
  /\ FGe(MixWeight(f.Pi, f.mu, 1, j), Zero)
  /\ FGe(MixWeight(f.Pi, f.mu, 2, j), Zero)
  /\ SumsToOne(MixWeight(f.Pi, f.mu, 1, j), MixWeight(f.Pi, f.mu, 2, j))

C12_NoExceptionOnHotPath == pc # "thrown"

\* the plot data extractData computes for filter f against the position truth
PlotDataAgainst(f, truth) ==
  ModelPlotData(f.models[1], 0, truth) \o ModelPlotData(f.models[2], 1, truth)

CarriesModelErrors(snapshot) ==
  /\ snapshot.additionalPlotData # Null
  /\ Len(snapshot.additionalPlotData) = 2
  /\ snapshot.additionalPlotData[1].series = "model0_error"
  /\ snapshot.additionalPlotData[2].series = "model1_error"

\* C18: when the selected filter is the IMM, every snapshot recorded at a
\* tick where the filter is initialized carries additionalPlotData with the
\* series model0_error and model1_error, and the values of the latest
\* snapshot are the position errors of the two models against the ground
\* truth of its tick.
C18_AdditionalPlotData ==
  filterType = "imm" =>
    /\ \A k \in 1..Len(filterStates) :
         filterStates[k].initialized => CarriesModelErrors(filterStates[k])
    /\ (filterStates # <<>> /\ Last(filterStates).initialized) =>
         Last(filterStates).additionalPlotData =
           PlotDataAgainst(filter, Last(groundTruth))

\* the scenario of C16 and C17: the truth stays at (0,0), the measurement
\* noise is 0 and a measurement fires on every tick
NoiselessStationary ==
  /\ trajectoryType = "stationary"
  /\ dom.measurementNoise = Zero
  /\ config.measurementRatio = One

ZeroState == [i \in 1..6 |-> Zero]

\* C16: in the noiseless stationary scenario every measurement equals the
\* truth (0,0), the bootstrap initializes the state to (0,0,0,0,0,0), and the
\* state recorded in every snapshot from the bootstrap tick on is
\* (0,0,0,0,0,0).
C16_StationaryStateStaysZero ==
  NoiselessStationary =>
    /\ \A k \in 1..Len(measurements) : measurements[k].pos = <<Zero, Zero>>
    /\ \A k \in 1..Len(filterStates) :
         filterStates[k].initialized => filterStates[k].state = ZeroState

\* the run has ended with the filter initialized for several ticks
C16_Witness ==
  /\ NoiselessStationary
  /\ pc = "idle"
  /\ config.bootstrapMeasurements = 3
  /\ Len(filterStates) = MaxTicks + 1
  /\ Last(filterStates).initialized
  /\ Last(filterStates).state = ZeroState
  /\ Last(filterStates).kalmanGain # Null

\* C17: in the noiseless stationary scenario with q = 1 every snapshot
\* recorded from the bootstrap tick on has coveragePct equal to 1.0: the
\* truth is counted inside the 95% ellipse on every initialized tick.
C17_StationaryCoverage ==
  (NoiselessStationary /\ dom.processNoise = One) =>
    \A k \in 1..Len(filterStates) :
      filterStates[k].initialized => filterStates[k].coveragePct = One

(***************************************************************************)
(* Properties of the controller's operations                               *)
(***************************************************************************)
\* the configuration SimulationController.createFilter hands to the registry
BaseConfig(cfg, inputs) ==
  [dt |-> cfg.dt, measurementNoise |-> inputs.measurementNoise,
   processNoise |-> inputs.processNoise]

\* createInstance of the entry registered under key
EntryInstance(key, baseConfig) ==
  IF key = "imm" THEN CreateIMM(baseConfig) ELSE CreateKalman2D(baseConfig)

\* what a step that calls createFilter leaves behind
CreateFilterOutcome ==
  /\ registry' = registry
  /\ IF filterType' \notin registry
     THEN pc' = "unknownFilterType" /\ filter' = filter
     ELSE /\ pc' = "running"
          /\ filter' = EntryInstance(filterType', BaseConfig(config', dom'))

\* C11: FilterRegistry.createFilter(key, config) with a key that was never
\* registered raises the unknown-filter-type error, creates no filter
\* instance (the controller keeps the one it holds) and leaves the registry
\* unchanged; with a registered key it returns the result of that entry's
\* createInstance(config).  Every operation of the controller calls it with
\* the filter type the controller holds after the operation.
C11_CreateFilter == [][(pc \in Settled) => CreateFilterOutcome]_vars

\* setFilterType('kf') after a completed run: the error is raised and the
\* controller still holds the initialized filter of that run
C11_Witness ==
  /\ pc = "unknownFilterType"
  /\ filterType \notin registry
  /\ filter.initialized
  /\ filterStates # <<>>

\* setFilterType raising the unknown-filter-type error
FailedSwitch == \E key \in FilterKeys \ registry : setFilterType(key)

\* setFilterType with a registered key, setTrajectoryType, updateNoiseParams,
\* a measurement-ratio change or reset
Reconfiguration ==
  \/ \E key \in registry : setFilterType(key)
  \/ \E type \in BuiltInTrajectories : setTrajectoryType(type)
  \/ \E r \in NoiseValues : updateNoiseParams(r)
  \/ \E ratio \in Ratios : measurementRatioInput(ratio)
  \/ reset

\* the run starts over: a new Uninitialized estimator, empty histories, the
\* coverage counters at 0, tick 0
RunRestarted ==
  /\ filter' = EntryInstance(filterType', BaseConfig(config', dom'))
  /\ Uninitialized(filter')
  /\ groundTruth' = <<>>
  /\ measurements' = <<>>
  /\ estimates' = <<>>
  /\ covariances' = <<>>
  /\ filterStates' = <<>>
  /\ errorHistory' = <<>>
  /\ confidenceHistory' = <<>>
  /\ coverageHits' = 0
  /\ coverageTotal' = 0
  /\ buffer' = <<>>
  /\ t' = Zero
  /\ pc' = "running"

\* C13: discard and recompute: each of setFilterType, setTrajectoryType,
\* updateNoiseParams, a measurement-ratio change and reset replaces the
\* estimator by a newly created Uninitialized instance and rebuilds the
\* seven histories from tick 0 with the coverage counters restarted at 0:
\* no snapshot, measurement, coverage count or estimator state of the
\* previous run survives.
C13_DiscardAndRecompute == [][Reconfiguration => RunRestarted]_vars

\* C14: determinism: two generateData runs with identical configuration,
\* identical trajectory and an identical stream of noise draws produce
\* identical snapshot sequences, whatever operations preceded each run: a
\* run with the inputs of the controller's first run records, tick by tick,
\* the snapshots the first run recorded.
C14_Determinism ==
  (firstRun.inputs = RunInputs /\ pc \in {"running", "idle"}) =>
    /\ Len(filterStates) <= Len(firstRun.snapshots)
    /\ filterStates = SubSeq(firstRun.snapshots, 1, Len(filterStates))

\* a later run with the inputs of the first run has returned; the page's
\* measurementRatio input has changed in between
C14_Witness ==
  /\ pc = "idle"
  /\ firstRun.inputs = RunInputs
  /\ firstRun.page # dom
  /\ Len(filterStates) = MaxTicks + 1
  /\ Last(filterStates).initialized

\* the seven history arrays of the controller
Histories ==
  <<groundTruth, measurements, estimates, covariances, filterStates,
    errorHistory, confidenceHistory>>

\* the failed switch raised the error and left the controller as it was
SwitchRejected ==
  /\ pc' = "unknownFilterType"
  /\ filterType' = filterType
  /\ filterType' \in registry
  /\ filter' = filter
  /\ Histories' = Histories

\* C30: when setFilterType is called with a key that is not registered, the
\* unknown-filter-type error is raised and the controller keeps its previous
\* filterType, its previous filter instance and its previously generated
\* histories, so that filterType and filter stay consistent with each other.
C30_FailedSwitchKeepsState ==
  [][(FailedSwitch /\ filterType \in registry) => SwitchRejected]_vars

\* the mu-weighted sum of the sub-model states of f
MuWeightedState(f) ==
  WeightedState(getState(f.models[1]), getState(f.models[2]),
                f.mu[1], f.mu[2])

\* the sum over j of mu[j]*(Pj + (xj - x)(xj - x)^T) around the exposed state
MuWeightedCovariance(f) ==
  WeightedCovariance(f.models, f.state, f.mu[1], f.mu[2])

\* equal as computed, or equal up to the rounding of the arithmetic
SameMatrix(A, B) == A = B \/ NearMatrix(A, B, Rounding)

\* C21: after initialize and after every predict() or update(z) of a Ready
\* IMMFilter, its exposed state equals the mu-weighted sum of the two
\* sub-model states and its exposed covariance equals the sum over j of
\* mu[j]*(Pj + (xj - x)(xj - x)^T), with the current mu and sub-model states.
C21_CombinationInvariant ==
  (imm.initialized /\ lastCall \in {"initialize", "predict", "update"}) =>
    /\ SameMatrix(imm.state, MuWeightedState(imm))
    /\ SameMatrix(imm.covariance, MuWeightedCovariance(imm))

\* the cached innovation, innovation covariance and gain of a filter
Cached(f) == <<f.lastInnovation, f.lastInnovationCovariance, f.lastKalmanGain>>

\* the IMM exposes the cache of model j (0 or 1) and reports j as active
ExposesModel(f, j) ==
  /\ Cached(f) = Cached(f.models[j + 1])
  /\ IMMExtractData(f, EmptyObject).activeModel = j

\* C22: after every update(z) of a Ready IMMFilter its lastInnovation,
\* lastKalmanGain and lastInnovationCovariance are those of model 0 when the
\* updated mu has mu[0] >= mu[1] (ties go to model 0) and those of model 1
\* otherwise, and the activeModel the registry's extractData reports for the
\* same filter follows the same rule.
C22_ActiveModelBookkeeping ==
  (imm.initialized /\ lastCall = "update") =>
    IF FGe(imm.mu[1], imm.mu[2]) THEN ExposesModel(imm, 0)
    ELSE ExposesModel(imm, 1)

\* an update after which model 1 is the active model, with a cache that
\* differs from that of model 0
C22_Witness ==
  /\ imm.initialized
  /\ lastCall = "update"
  /\ FLt(imm.mu[1], imm.mu[2])
  /\ Cached(imm.models[1]) # Cached(imm.models[2])

NoCache == <<Null, Null, Null>>

FullCache(f) ==
  f.lastInnovation # Null /\ f.lastInnovationCovariance # Null
    /\ f.lastKalmanGain # Null

\* what one call does to the cache of the KalmanFilter2D
CacheStep ==
  /\ (lastCall' = "predict" /\ kf.initialized) => Cached(kf') = NoCache
  /\ (lastCall' = "update" /\ kf.initialized) => FullCache(kf')
  /\ lastCall' \notin {"predict", "update"} => Cached(kf') = Cached(kf)

\* C23: after every predict() on a Ready KalmanFilter2D, lastInnovation,
\* lastKalmanGain and lastInnovationCovariance are all null and stay null
\* until the next update(z) (no other call changes them); after every
\* update(z) on a Ready filter all three are non-null.
C23_CacheLifecycle == [][(nCalls' = nCalls + 1) => CacheStep]_vars

\* a predict() that has cleared the cache an update() had filled, followed by
\* a call that is neither predict nor update
C23_Witness ==
  /\ kf.initialized
  /\ lastCall = "updateNoise"
  /\ Cached(kf) = NoCache
  /\ Cached(imm) # NoCache

\* z minus the position components of the state x
PositionResidual(z, x) ==
  <<<<FSub(z[1][1], x[1][1])>>, <<FSub(z[2][1], x[2][1])>>>>

\* the top-left 2x2 block of the covariance P plus r^2 * I2
PositionBlockPlusNoise(P, r) ==
  add(extractSubmatrix(P, 0, 1, 0, 1), ScaledIdentity2(r))

\* the gain P H^T S^-1, for position measurements: the first two columns of P
\* times S^-1
GainFrom(P, S) ==
  multiply([i \in 1..6 |-> <<P[i][1], P[i][2]>>], inverse2x2(S))

\* the filter after is the update of the filter before with measurement z
UpdatedFrom(before, after, z) ==
  /\ after.lastInnovation = PositionResidual(z, before.state)
  /\ after.lastInnovationCovariance =
       PositionBlockPlusNoise(before.covariance, before.measurementNoiseScalar)
  /\ after.lastKalmanGain =
       GainFrom(before.covariance, after.lastInnovationCovariance)
  /\ after.state =
       add(before.state, multiply(after.lastKalmanGain, after.lastInnovation))
  /\ after.covariance =
       multiply(subtract(identity(6),
                         multiply(after.lastKalmanGain, MeasurementMatrix)),
                before.covariance)

\* C24: after update(z) on a Ready KalmanFilter2D, lastInnovation equals z
\* minus the position components of the state held before the call,
\* lastInnovationCovariance equals the top-left 2x2 block of the covariance
\* held before the call plus r^2 * I2, and the gain, the new state x + K*y
\* and the new covariance (I - K*H)*P are computed from that pre-update state
\* and covariance.
C24_UpdateInputs ==
  [][(lastCall' = "update" /\ nCalls' = nCalls + 1 /\ kf.initialized) =>
       UpdatedFrom(kf, kf', lastArgs'[1])]_vars

\* an update of a filter whose state and covariance the update has changed
C24_Witness ==
  /\ lastCall = "update"
  /\ kf.initialized
  /\ nCalls >= 3
  /\ kf.lastInnovation # <<<<Zero>>, <<Zero>>>>


\* the number of iterations the loop has completed or entered
TicksRecorded == Len(groundTruth)

\* the six per-tick arrays have the same length
EqualLengths ==
  /\ Len(estimates) = Len(groundTruth)
  /\ Len(covariances) = Len(groundTruth)
  /\ Len(errorHistory) = Len(groundTruth)
  /\ Len(confidenceHistory) = Len(groundTruth)
  /\ Len(filterStates) = Len(groundTruth)

\* the statistics of tick k are null exactly when its snapshot is of a
\* filter that is not initialized
NullWithoutFilter(k) ==
  /\ (estimates[k] = Null) <=> ~filterStates[k].initialized
  /\ (covariances[k] = Null) <=> ~filterStates[k].initialized
  /\ (errorHistory[k] = Null) <=> ~filterStates[k].initialized
  /\ (confidenceHistory[k] = Null) <=> ~filterStates[k].initialized

\* tick k (from 1) is the tick of time (k - 1) * dt
TickTimes ==
  /\ pc = "running" => t = FMul(FromInt(Len(filterStates)), config.dt)
  /\ \A k \in 1..Len(groundTruth) :
       groundTruth[k] =
         generatePosition(trajectoryType, FMul(FromInt(k - 1), config.dt),
                          config.maxTime)

\* C27: a run visits the ticks 0, dt, ..., maxTime and appends one entry per
\* tick to each of groundTruth, estimates, covariances, errorHistory,
\* confidenceHistory and filterStates, so the six arrays always have the
\* same length, MaxTicks + 1 at the end of the run; the entries of
\* estimates, covariances, errorHistory and confidenceHistory of a tick are
\* null exactly when the snapshot of the tick has initialized = false
C27_OneRecordPerTick ==
  /\ EqualLengths
  /\ TickTimes
  /\ \A k \in 1..Len(filterStates) : NullWithoutFilter(k)
  /\ pc = "idle" => Len(groundTruth) = MaxTicks + 1


\* the innovation, gain and innovation covariance of the snapshot of tick k
SnapshotInnovation(k) ==
  <<filterStates[k].innovation, filterStates[k].kalmanGain,
    filterStates[k].innovationCovariance>>

\* the ticks up to k at which update() ran: the filter was initialized and
\* a measurement had arrived
UpdateTicks(k) ==
  {j \in 1..k : filterStates[j].initialized /\ filterStates[j].hadMeasurement}

\* the largest element of a non-empty set of ticks
MostRecent(ticks) == CHOOSE j \in ticks : \A i \in ticks : i <= j

\* the snapshot of tick k carries the last update's innovation, gain and
\* innovation covariance, or null when no update has run yet
Sticky(k) ==
  /\ UpdateTicks(k) = {} => SnapshotInnovation(k) = <<Null, Null, Null>>
  /\ (UpdateTicks(k) # {} /\ ~filterStates[k].hadMeasurement) =>
       SnapshotInnovation(k) = SnapshotInnovation(MostRecent(UpdateTicks(k)))

\* C28: for both filter types the innovation, Kalman gain and innovation
\* covariance of a snapshot are null on every tick before the first
\* update() of the run, and on a later tick without a measurement they are
\* those of the most recent tick that had a measurement: predict() does
\* not reset them to null in the snapshot
C28_StickyInnovation == \A k \in 1..Len(filterStates) : Sticky(k)

\* a tick without a measurement after the first update, whose snapshot
\* carries an innovation, a gain and an innovation covariance, while the
\* Kalman filter itself has dropped them in predict()
C28_Witness ==
  /\ filterStates # <<>>
  /\ ~Last(filterStates).hadMeasurement
  /\ UpdateTicks(Len(filterStates)) # {}
  /\ Last(filterStates).innovation # Null
  /\ Last(filterStates).kalmanGain # Null
  /\ Last(filterStates).innovationCovariance # Null
  /\ filterType = "kalman-2d"
  /\ filter.lastInnovation = Null


\* the ticks recorded so far whose snapshot is of an initialized filter
InitializedTicks == {k \in 1..Len(filterStates) : filterStates[k].initialized}

\* a coverage percentage is null or a number between 0 and 1
ValidPct(pct) == pct = Null \/ (FGe(pct, Zero) /\ FLe(pct, One))

\* the counters and the percentage of the latest snapshot agree
CoverageBookkeeping ==
  /\ 0 <= coverageHits
  /\ coverageHits <= coverageTotal
  /\ coverageTotal <= Cardinality(InitializedTicks)
  /\ \A k \in 1..Len(filterStates) : ValidPct(filterStates[k].coveragePct)
  /\ filterStates # <<>> =>
       /\ (Last(filterStates).coveragePct = Null) <=> (coverageTotal = 0)
       /\ coverageTotal > 0 =>
            Last(filterStates).coveragePct =
              FDiv(FromInt(coverageHits), FromInt(coverageTotal))

\* one tick of the run: the counters do not decrease and the bookkeeping
\* holds of the tick's snapshot
CoverageStep ==
  /\ coverageHits' >= coverageHits
  /\ coverageTotal' >= coverageTotal
  /\ CoverageBookkeeping'

\* C29: at every tick of a run 0 <= hits <= total <= number of initialized
\* ticks so far, neither counter decreases, and coveragePct of the tick's
\* snapshot is null exactly when total = 0 and is otherwise hits / total,
\* a value between 0 and 1
C29_CoverageBookkeeping == [][Tick => CoverageStep]_vars

\* a run with a tick that was counted and missed, a tick that was counted
\* and hit, so that the percentage is strictly between 0 and 1
C29_Witness ==
  /\ 0 < coverageHits
  /\ coverageHits < coverageTotal
  /\ Last(filterStates).coveragePct # Null
  /\ FGt(Last(filterStates).coveragePct, Zero)
  /\ FLt(Last(filterStates).coveragePct, One)

(***************************************************************************)
(* Array identities.  A JavaScript array is an object: two fields can     *)
(* hold the same array, and a store into an array shows through every     *)
(* reference to it.  This part follows the estimators and the loop of     *)
(* generateData by the identity of each array they allocate, share and    *)
(* store into.  The numbers in the arrays are those of the parts above    *)
(* and are left out here.                                                  *)
(***************************************************************************)
\* the objects that own fields: the estimator and its two sub-models
Estimators == {"this", "models[0]", "models[1]"}

Fields ==
  {"F", "H", "Q", "R", "state", "covariance", "lastInnovation",
   "lastKalmanGain", "lastInnovationCovariance", "mu", "Pi"}

\* the locals and temporaries of the methods
Locals ==
  {"x0", "P0", "z", "FP", "Ft", "FPFt", "Hx", "innovation", "HP", "HPHt",
   "S", "PHt", "Sinv", "K", "Ky", "KH", "I6", "I_KH", "muPrev", "c", "w",
   "xi", "Pi", "dx", "outer", "add", "like", "y", "mixPrior", "x", "P", "xj",
   "term", "scaled", "truth", "measurement", "I", "position", "covPos",
   "mapped", "stateArray", "fullP", "posCov2x2", "modelProbabilities"}

\* the locals of generateData that live from one iteration to the next
LoopLocals == {"lastInnovation", "lastKalmanGain", "lastInnovationCovariance"}

Slots ==
  (Estimators \X Fields) \cup ({"local"} \X Locals)
    \cup ({"generateData"} \X LoopLocals)

L(name) == <<"local", name>>

\* an array made by an expression: a literal, map, slice or spread
Fresh(h) == [heap |-> Append(h, 0), result |-> Len(h) + 1]

\* an array made and then filled by element stores before it is returned
FreshFilled(h) == [heap |-> Append(h, 1), result |-> Len(h) + 1]

\* MatrixUtils, by what each function allocates and what it stores into
multiplyRef(h, A, B) == FreshFilled(h)
transposeRef(h, A) == Fresh(h)

\* an add that accumulates into its first argument and returns it
addInPlace(h, A, B) == [heap |-> [h EXCEPT ![A] = @ + 1], result |-> A]

addRef(h, A, B) == Fresh(h)
subtractRef(h, A, B) == Fresh(h)
inverse2x2Ref(h, A) == Fresh(h)
identityRef(h) == Fresh(h)
extractSubmatrixRef(h, A) == Fresh(h)

\* the array an expression yields; a holds the arrays it reads.  _outer of
\* IMMFilter fills the array it has made, _vsub, _madd and _mscale are maps
Allocate(op, h, a) ==
  CASE op = "multiply" -> multiplyRef(h, a[1], a[2])
    [] op = "transpose" -> transposeRef(h, a[1])
    [] op = "add" -> addRef(h, a[1], a[2])
    [] op = "subtract" -> subtractRef(h, a[1], a[2])
    [] op = "inverse2x2" -> inverse2x2Ref(h, a[1])
    [] op = "identity" -> identityRef(h)
    [] op = "extractSubmatrix" -> extractSubmatrixRef(h, a[1])
    [] op = "_outer" -> FreshFilled(h)
    [] OTHER -> Fresh(h)

\* one statement: dst = op(args)
Ins(op, dst, args) == [op |-> op, dst |-> dst, args |-> args]

\* the machine: the heap, the references, the initialized flags, and
\* whether a TypeError has been thrown
Machine == [heap |-> heap, env |-> env, inited |-> inited, thrown |-> FALSE]

Bind(M, dst, r) == [M EXCEPT !.heap = r.heap, !.env[dst] = r.result]

RECURSIVE Exec(_, _)
RECURSIVE Apply(_, _)

\* an element read or store through null is a TypeError
Throw(M) == [M EXCEPT !.thrown = TRUE]

\* the effect of one statement.  assign copies a reference, store is an
\* element store into the array dst holds, ifInitialized and ifSet guard a
\* block, every other statement binds dst to the array its expression
\* yields from the arrays it reads
Apply(ins, M) ==
  CASE ins.op = "assign" -> [M EXCEPT !.env[ins.dst] = M.env[ins.args[1]]]
    [] ins.op = "null" -> [M EXCEPT !.env[ins.dst] = 0]
    [] ins.op = "store" ->
         IF M.env[ins.dst] = 0 THEN Throw(M)
         ELSE [M EXCEPT !.heap[M.env[ins.dst]] = @ + 1]
    [] ins.op = "initialized" -> [M EXCEPT !.inited[ins.dst] = TRUE]
    [] ins.op = "ifInitialized" ->
         IF M.inited[ins.dst] THEN Exec(ins.args, M) ELSE M
    [] ins.op = "ifSet" ->
         IF M.env[ins.dst] # 0 THEN Exec(ins.args, M) ELSE M
    [] OTHER ->
         IF \E i \in 1..Len(ins.args) : M.env[ins.args[i]] = 0 THEN Throw(M)
         ELSE Bind(M, ins.dst,
                   Allocate(ins.op, M.heap,
                            [i \in 1..Len(ins.args) |-> M.env[ins.args[i]]]))

\* the rest of a block runs unless a statement before it has thrown
Resume(code, M) == IF M.thrown THEN M ELSE Exec(code, M)

\* the statements of a block, in order: the first half, then the rest
Exec(code, M) ==
  IF Len(code) = 0 THEN M
  ELSE IF Len(code) = 1 THEN Apply(code[1], M)
  ELSE Resume(SubSeq(code, (Len(code) \div 2) + 1, Len(code)),
              Exec(SubSeq(code, 1, Len(code) \div 2), M))

\* the locals are gone when the call returns
DropLocals(M) ==
  [M EXCEPT !.env = [s \in Slots |-> IF s[1] = "local" THEN 0 ELSE M.env[s]]]

\* KalmanFilter2D.rebuildNoise: Q and R are new literals
rebuildNoiseCode(o) ==
  << Ins("literal", <<o, "Q">>, <<>>), Ins("literal", <<o, "R">>, <<>>) >>

\* the constructor of KalmanFilter2D: F and H are literals, state and
\* covariance are null
KFConstructorCode(o) ==
  << Ins("literal", <<o, "F">>, <<>>), Ins("literal", <<o, "H">>, <<>>) >>
    \o rebuildNoiseCode(o)

\* KalmanFilter2D.setInitialState keeps the arrays it is given
setInitialStateCode(o) ==
  << Ins("assign", <<o, "state">>, <<L("x0")>>),
     Ins("assign", <<o, "covariance">>, <<L("P0")>>),
     Ins("initialized", o, <<>>) >>

\* KalmanFilter2D.predict
KFPredictCode(o) ==
  << Ins("ifInitialized", o,
       << Ins("multiply", <<o, "state">>, << <<o, "F">>, <<o, "state">> >>),
          Ins("multiply", L("FP"), << <<o, "F">>, <<o, "covariance">> >>),
          Ins("transpose", L("Ft"), << <<o, "F">> >>),
          Ins("multiply", L("FPFt"), <<L("FP"), L("Ft")>>),
          Ins("add", <<o, "covariance">>, <<L("FPFt"), <<o, "Q">> >>),
          Ins("null", <<o, "lastInnovation">>, <<>>),
          Ins("null", <<o, "lastKalmanGain">>, <<>>),
          Ins("null", <<o, "lastInnovationCovariance">>, <<>>) >>) >>

\* KalmanFilter2D.update of the measurement in z
KFUpdateCode(o) ==
  << Ins("ifInitialized", o,
       << Ins("multiply", L("Hx"), << <<o, "H">>, <<o, "state">> >>),
          Ins("subtract", L("innovation"), <<L("z"), L("Hx")>>),
          Ins("assign", <<o, "lastInnovation">>, <<L("innovation")>>),
          Ins("multiply", L("HP"), << <<o, "H">>, <<o, "covariance">> >>),
          Ins("transpose", L("Ft"), << <<o, "H">> >>),
          Ins("multiply", L("HPHt"), <<L("HP"), L("Ft")>>),
          Ins("add", L("S"), <<L("HPHt"), <<o, "R">> >>),
          Ins("assign", <<o, "lastInnovationCovariance">>, <<L("S")>>),
          Ins("transpose", L("Ft"), << <<o, "H">> >>),
          Ins("multiply", L("PHt"), << <<o, "covariance">>, L("Ft") >>),
          Ins("inverse2x2", L("Sinv"), <<L("S")>>),
          Ins("multiply", L("K"), <<L("PHt"), L("Sinv")>>),
          Ins("assign", <<o, "lastKalmanGain">>, <<L("K")>>),
          Ins("multiply", L("Ky"), <<L("K"), L("innovation")>>),
          Ins("add", <<o, "state">>, << <<o, "state">>, L("Ky") >>),
          Ins("multiply", L("KH"), << L("K"), <<o, "H">> >>),
          Ins("identity", L("I6"), <<>>),
          Ins("subtract", L("I_KH"), <<L("I6"), L("KH")>>),
          Ins("multiply", <<o, "covariance">>,
              << L("I_KH"), <<o, "covariance">> >>) >>) >>

\* the constructor of IMMFilter: two KalmanFilter2D, mu and Pi
IMMConstructorCode ==
  KFConstructorCode("models[0]") \o KFConstructorCode("models[1]")
    \o << Ins("literal", <<"this", "mu">>, <<>>),
          Ins("literal", <<"this", "Pi">>, <<>>) >>

\* IMMFilter.initialize hands x0 and P0 to both sub-models and keeps them
IMMInitializeCode ==
  setInitialStateCode("models[0]") \o setInitialStateCode("models[1]")
    \o << Ins("assign", <<"this", "state">>, <<L("x0")>>),
          Ins("assign", <<"this", "covariance">>, <<L("P0")>>),
          Ins("initialized", "this", <<>>) >>

\* the term of sub-model o in a mixed or combined covariance: into is P0
\* of predict or P of _combineByMu, about the local x0 or x
SpreadTermCode(o, into, about) ==
  << Ins("assign", L("Pi"), << <<o, "covariance">> >>),
     Ins("_vsub", L("dx"), << <<o, "state">>, L(about) >>),
     Ins("_outer", L("outer"), <<L("dx")>>),
     Ins("_madd", L("add"), <<L("Pi"), L("outer")>>),
     Ins("_mscale", L("scaled"), <<L("add")>>),
     Ins("_madd", L(into), <<L(into), L("scaled")>>) >>

\* the weighted sum of the sub-models' states in a new array
WeightedStateCode(into) ==
  << Ins("literal", L(into), <<>>),
     Ins("assign", L("xi"), << <<"models[0]", "state">> >>),
     Ins("store", L(into), <<>>),
     Ins("assign", L("xi"), << <<"models[1]", "state">> >>),
     Ins("store", L(into), <<>>) >>

\* one turn of the loop over j of IMMFilter.predict
MixCode(o) ==
  WeightedStateCode("x0")
    \o << Ins("literal", L("P0"), <<>>) >>
    \o SpreadTermCode("models[0]", "P0", "x0")
    \o SpreadTermCode("models[1]", "P0", "x0")
    \o << Ins("assign", <<o, "state">>, <<L("x0")>>),
          Ins("assign", <<o, "covariance">>, <<L("P0")>>) >>
    \o KFPredictCode(o)

\* IMMFilter._combineByMu
combineByMuCode ==
  WeightedStateCode("x")
    \o << Ins("literal", L("P"), <<>>) >>
    \o SpreadTermCode("models[0]", "P", "x")
    \o SpreadTermCode("models[1]", "P", "x")
    \o << Ins("assign", <<"this", "state">>, <<L("x")>>),
          Ins("assign", <<"this", "covariance">>, <<L("P")>>) >>

\* IMMFilter.predict
IMMPredictCode ==
  << Ins("ifInitialized", "this",
       << Ins("slice", L("muPrev"), << <<"this", "mu">> >>),
          Ins("literal", L("c"), <<>>),
          Ins("literal", L("w"), <<>>) >>
         \o MixCode("models[0]") \o MixCode("models[1]")
         \o combineByMuCode) >>

\* the likelihood of sub-model o in IMMFilter.update
LikelihoodCode(o) ==
  KFUpdateCode(o)
    \o << Ins("assign", L("y"), << <<o, "lastInnovation">> >>),
          Ins("assign", L("S"), << <<o, "lastInnovationCovariance">> >>),
          Ins("inverse2x2", L("Sinv"), <<L("S")>>),
          Ins("store", L("like"), <<>>) >>

\* IMMFilter.update of the measurement in z; jStar is the more probable
\* sub-model after the update, whose innovation, innovation covariance and
\* gain the filter takes over
IMMUpdateCode(jStar) ==
  << Ins("ifInitialized", "this",
       << Ins("literal", L("like"), <<>>) >>
         \o LikelihoodCode("models[0]") \o LikelihoodCode("models[1]")
         \o << Ins("slice", L("muPrev"), << <<"this", "mu">> >>),
               Ins("literal", L("mixPrior"), <<>>),
               Ins("literal", <<"this", "mu">>, <<>>),
               Ins("assign", <<"this", "lastInnovation">>,
                   << <<jStar, "lastInnovation">> >>),
               Ins("assign", <<"this", "lastInnovationCovariance">>,
                   << <<jStar, "lastInnovationCovariance">> >>),
               Ins("assign", <<"this", "lastKalmanGain">>,
                   << <<jStar, "lastKalmanGain">> >>) >>
         \o combineByMuCode) >>

\* IMMFilter.updateNoise
IMMUpdateNoiseCode ==
  rebuildNoiseCode("models[0]") \o rebuildNoiseCode("models[1]")

\* the methods by the class of the estimator
ConstructorCode(type) ==
  IF type = "imm" THEN IMMConstructorCode ELSE KFConstructorCode("this")
InitializeCode(type) ==
  IF type = "imm" THEN IMMInitializeCode ELSE setInitialStateCode("this")
PredictCode(type) ==
  IF type = "imm" THEN IMMPredictCode ELSE KFPredictCode("this")
UpdateCode(type, jStar) ==
  IF type = "imm" THEN IMMUpdateCode(jStar) ELSE KFUpdateCode("this")
UpdateNoiseCode(type) ==
  IF type = "imm" THEN IMMUpdateNoiseCode ELSE rebuildNoiseCode("this")

\* nothing allocated, nothing held
EmptyMachine ==
  [heap |-> <<>>, env |-> [s \in Slots |-> 0],
   inited |-> [o \in Estimators |-> FALSE], thrown |-> FALSE]

\* a call has returned, or thrown, in machine M
Returned(M) ==
  /\ heap' = M.heap
  /\ env' = DropLocals(M).env
  /\ inited' = M.inited
  /\ loop' = IF M.thrown THEN [pc |-> "thrown"] ELSE loop

\* the arrays held in the slots, each with its count of stores, in M
Handed(M, slots) == {<<M.env[s], M.heap[M.env[s]]>> : s \in slots}

\* the sub-model that an update finds the more probable
ActiveModels == IF estType = "imm" THEN {"models[0]", "models[1]"} ELSE {"this"}

\* no generateData while the estimator is called directly
NoLoop == [pc |-> "none"]

\* initialize(x0, P0) with two arrays of the caller
RefInitialize ==
  /\ loop.pc = "none"
  /\ Len(refCalls) < MaxCalls
  /\ \E M \in {Exec(<< Ins("literal", L("x0"), <<>>),
                       Ins("literal", L("P0"), <<>>) >>
                      \o InitializeCode(estType), Machine)} :
       /\ Returned(M)
       /\ passed' = passed \cup Handed(M, {L("x0"), L("P0")})
  /\ refCalls' = Append(refCalls, "initialize")
  /\ UNCHANGED <<estType, filterVars, simVars>>

RefPredict ==
  /\ loop.pc = "none"
  /\ Len(refCalls) < MaxCalls
  /\ Returned(Exec(PredictCode(estType), Machine))
  /\ refCalls' = Append(refCalls, "predict")
  /\ UNCHANGED <<estType, passed, filterVars, simVars>>

\* update(z) with an array of the caller
RefUpdate(jStar) ==
  /\ loop.pc = "none"
  /\ Len(refCalls) < MaxCalls
  /\ Returned(Exec(<< Ins("literal", L("z"), <<>>) >>
                     \o UpdateCode(estType, jStar), Machine))
  /\ refCalls' = Append(refCalls, "update")
  /\ UNCHANGED <<estType, passed, filterVars, simVars>>

RefUpdateNoise ==
  /\ loop.pc = "none"
  /\ Len(refCalls) < MaxCalls
  /\ Returned(Exec(UpdateNoiseCode(estType), Machine))
  /\ refCalls' = Append(refCalls, "updateNoise")
  /\ UNCHANGED <<estType, passed, filterVars, simVars>>

\* an estimator of either class, just constructed
InitRefs ==
  /\ estType \in RegisteredKeys
  /\ \E M \in {Exec(ConstructorCode(estType), EmptyMachine)} :
       /\ heap = M.heap
       /\ env = M.env
       /\ inited = M.inited
  /\ passed = {}
  /\ refCalls = <<>>
  /\ loop = NoLoop
  /\ NoSimulation
  /\ NoFilterCalls

NextRefs ==
  \/ RefInitialize
  \/ RefPredict
  \/ \E jStar \in ActiveModels : RefUpdate(jStar)
  \/ RefUpdateNoise

SpecRefs == InitRefs /\ [][NextRefs]_vars

\* no array that exists before a step is stored into by the step
Unmodified == \A id \in 1..Len(heap) : heap'[id] = heap[id]

\* the step is a predict or an update of an initialized estimator
Estimated ==
  /\ Len(refCalls') = Len(refCalls) + 1
  /\ Last(refCalls') \in {"predict", "update"}
  /\ inited["this"]

\* the estimators in use: the filter, and its sub-models when it is an IMM
InUse == IF estType = "imm" THEN Estimators ELSE {"this"}

\* the state and the covariance of every estimator in use are arrays the
\* step has made
ResultsFresh ==
  \A o \in InUse :
    /\ env'[<<o, "state">>] > Len(heap)
    /\ env'[<<o, "covariance">>] > Len(heap)

\* no two estimators in use hold the same state or covariance array
EstimatorsApart ==
  \A o1, o2 \in InUse :
    o1 # o2 => /\ env[<<o1, "state">>] # env[<<o2, "state">>]
               /\ env[<<o1, "covariance">>] # env[<<o2, "covariance">>]

\* the arrays handed to initialize are as they were when handed over
PassedKept == \A p \in passed : heap[p[1]] = p[2]

KernelStep ==
  /\ Unmodified
  /\ PassedKept'
  /\ Estimated => (ResultsFresh /\ EstimatorsApart')

\* C26: the functions of MatrixUtils return newly allocated arrays and do
\* not store into their arguments; so no call of an estimator stores into
\* an array that existed before the call, the x0 and P0 handed to
\* setInitialState or initialize, which IMMFilter.initialize shares between
\* the filter and both sub-models, are never modified by a later predict or
\* update, and after a predict or an update every estimator holds state and
\* covariance arrays of its own, made by the call, so that a change of one
\* sub-model's state does not show through in the other
C26_KernelPurity == [][KernelStep]_vars

\* an IMM whose update came right after initialize, when both sub-models
\* and the filter still held the caller's x0 and P0: the arrays handed over
\* are unchanged and the sub-models now hold arrays of their own
C26_Witness ==
  /\ estType = "imm"
  /\ Len(refCalls) >= 2
  /\ refCalls[Len(refCalls) - 1] = "initialize"
  /\ Last(refCalls) = "update"
  /\ passed # {}
  /\ PassedKept
  /\ EstimatorsApart
  /\ \A p \in passed : \A o \in Estimators :
       p[1] \notin {env[<<o, "state">>], env[<<o, "covariance">>]}

\* generatePosition returns a new pair; when a measurement arrives
\* addGaussianNoise returns another
MeasureCode(had) ==
  << Ins("literal", L("truth"), <<>>) >>
    \o (IF had THEN << Ins("literal", L("measurement"), <<>>) >> ELSE <<>>)

\* buildInitialCovariance: a copy of the identity with zeros, and then the
\* six stores into its diagonal
buildInitialCovarianceCode ==
  << Ins("identity", L("I"), <<>>),
     Ins("map", L("P0"), <<L("I")>>),
     Ins("store", L("P0"), <<>>) >>

\* initializeFromBuffer with n buffered measurements: buffer[n-3] is
\* undefined when n < 3, and reading its pos throws
initializeFromBufferRef(M, type, n) ==
  IF n < 3 THEN Throw(M)
  ELSE Exec(<< Ins("literal", L("x0"), <<>>) >>
              \o buildInitialCovarianceCode \o InitializeCode(type), M)

\* the copies of the estimator's innovation, gain and innovation covariance
\* kept in the locals of generateData
CacheCode ==
  << Ins("ifSet", <<"this", "lastInnovation">>,
       << Ins("map", L("mapped"), << <<"this", "lastInnovation">> >>),
          Ins("spread", <<"generateData", "lastInnovation">>,
              <<L("mapped")>>) >>),
     Ins("ifSet", <<"this", "lastKalmanGain">>,
       << Ins("map", <<"generateData", "lastKalmanGain">>,
              << <<"this", "lastKalmanGain">> >>) >>),
     Ins("ifSet", <<"this", "lastInnovationCovariance">>,
       << Ins("map", <<"generateData", "lastInnovationCovariance">>,
              << <<"this", "lastInnovationCovariance">> >>) >>) >>

\* the part of an iteration that runs once the filter is initialized:
\* predict, update when a measurement arrived, the copies of the cache, the
\* position and its covariance, and the inverse the coverage test takes
RunCode(type, had, jStar) ==
  << Ins("ifInitialized", "this",
       PredictCode(type)
         \o (IF had
             THEN << Ins("literal", L("z"), <<>>) >> \o UpdateCode(type, jStar)
             ELSE <<>>)
         \o CacheCode
         \o << Ins("literal", L("position"), << <<"this", "state">> >>),
               Ins("extractSubmatrix", L("covPos"),
                   << <<"this", "covariance">> >>),
               Ins("inverse2x2", L("Sinv"), <<L("covPos")>>) >>) >>

\* the snapshot with the full covariance kept by reference
SnapshotCodeByReference ==
  << Ins("ifInitialized", "this",
       << Ins("map", L("mapped"), << <<"this", "state">> >>),
          Ins("spread", L("stateArray"), <<L("mapped")>>),
          Ins("assign", L("fullP"), << <<"this", "covariance">> >>),
          Ins("extractSubmatrix", L("posCov2x2"),
              << <<"this", "covariance">> >>) >>) >>

\* the arrays of the snapshot: the state flattened, the covariance copied
\* row by row, its position block
SnapshotCode ==
  << Ins("ifInitialized", "this",
       << Ins("map", L("mapped"), << <<"this", "state">> >>),
          Ins("spread", L("stateArray"), <<L("mapped")>>),
          Ins("map", L("fullP"), << <<"this", "covariance">> >>),
          Ins("extractSubmatrix", L("posCov2x2"),
              << <<"this", "covariance">> >>) >>) >>

\* extractData of the registry entry: the 'imm' entry copies mu
ExtractDataCode(type) ==
  IF type = "imm"
  THEN << Ins("ifInitialized", "this",
            << Ins("spread", L("modelProbabilities"),
                   << <<"this", "mu">> >>) >>) >>
  ELSE <<>>

\* the object filterState of an iteration, by the arrays it holds
SnapshotOf(M, had) ==
  [state |-> M.env[L("stateArray")],
   covariance |-> M.env[L("posCov2x2")],
   fullCovariance |-> M.env[L("fullP")],
   innovation |-> M.env[<<"generateData", "lastInnovation">>],
   kalmanGain |-> M.env[<<"generateData", "lastKalmanGain">>],
   innovationCovariance |->
     M.env[<<"generateData", "lastInnovationCovariance">>],
   hadMeasurement |-> had,
   initialized |-> M.inited["this"],
   modelProbabilities |-> M.env[L("modelProbabilities")]]

\* the history arrays after the pushes made before the bootstrap
Measured(M, had) ==
  [loop EXCEPT
     !.groundTruth = Append(@, M.env[L("truth")]),
     !.measurements = IF had THEN Append(@, M.env[L("measurement")]) ELSE @,
     !.buffer = IF had THEN Append(@, M.env[L("measurement")]) ELSE @]

\* the history arrays after a whole iteration
Pushed(M, had) ==
  [Measured(M, had) EXCEPT
     !.tick = @ + 1,
     !.estimates = Append(@, M.env[L("position")]),
     !.covariances = Append(@, M.env[L("covPos")]),
     !.filterStates = Append(@, SnapshotOf(M, had))]

\* a measurement arrives at every ratio-th iteration, from the first on
Fires == loop.tick % loop.ratio = 0

\* the machine after the bootstrap of an iteration, when it is due
Bootstrapped(M, had) ==
  IF had /\ ~M.inited["this"] /\ Len(loop.buffer) + 1 >= loop.needed
  THEN initializeFromBufferRef(M, estType, Len(loop.buffer) + 1)
  ELSE M

\* one iteration of the loop of generateData
RefTick(jStar) ==
  /\ loop.pc = "running"
  /\ loop.tick <= MaxTicks
  /\ \E had \in {Fires} :
       \E B \in {Bootstrapped(Exec(MeasureCode(had), Machine), had)} :
         \E M \in {Resume(RunCode(estType, had, jStar) \o SnapshotCode
                            \o ExtractDataCode(estType), B)} :
           /\ heap' = M.heap
           /\ env' = DropLocals(M).env
           /\ inited' = M.inited
           /\ passed' = IF B.inited["this"] /\ ~inited["this"]
                        THEN passed \cup Handed(B, {L("x0"), L("P0")})
                        ELSE passed
           /\ loop' = IF M.thrown
                      THEN [Measured(M, had) EXCEPT !.pc = "thrown"]
                      ELSE Pushed(M, had)
  /\ UNCHANGED <<estType, refCalls, filterVars, simVars>>

\* the loop ends after the iteration of maxTime
RefReturn ==
  /\ loop.pc = "running"
  /\ loop.tick > MaxTicks
  /\ loop' = [loop EXCEPT !.pc = "idle"]
  /\ UNCHANGED <<heap, env, inited, estType, passed, refCalls, filterVars,
                 simVars>>

\* generateData enters its loop with a new filter and empty histories
InitSnapshots ==
  /\ estType \in RegisteredKeys
  /\ \E M \in {Exec(ConstructorCode(estType), EmptyMachine)} :
       /\ heap = M.heap
       /\ env = M.env
       /\ inited = M.inited
  /\ passed = {}
  /\ refCalls = <<>>
  /\ loop \in [pc : {"running"}, tick : {0}, ratio : 1..MaxRatio,
               needed : 1..MaxBootstrap, groundTruth : {<<>>},
               measurements : {<<>>}, buffer : {<<>>}, estimates : {<<>>},
               covariances : {<<>>}, filterStates : {<<>>}]
  /\ NoSimulation
  /\ NoFilterCalls

NextSnapshots == (\E jStar \in ActiveModels : RefTick(jStar)) \/ RefReturn

SpecSnapshots == InitSnapshots /\ [][NextSnapshots]_vars

\* the arrays recorded for iteration k: those of its snapshot, its estimate
\* and its position covariance
Recorded(k) ==
  {loop.filterStates[k].state, loop.filterStates[k].covariance,
   loop.filterStates[k].fullCovariance, loop.filterStates[k].innovation,
   loop.filterStates[k].kalmanGain,
   loop.filterStates[k].innovationCovariance,
   loop.filterStates[k].modelProbabilities,
   loop.estimates[k], loop.covariances[k]} \ {0}

\* the state and covariance arrays the estimator and its sub-models hold
Live ==
  {env[<<o, "state">>] : o \in Estimators}
    \cup {env[<<o, "covariance">>] : o \in Estimators}

\* the step leaves what was recorded as it was: the same entries, holding
\* the same arrays, with no store made into any of them
Undisturbed ==
  \A k \in 1..Len(loop.filterStates) :
    /\ loop'.filterStates[k] = loop.filterStates[k]
    /\ loop'.estimates[k] = loop.estimates[k]
    /\ loop'.covariances[k] = loop.covariances[k]
    /\ \A id \in Recorded(k) : heap'[id] = heap[id]

\* nothing recorded is an array the estimator holds as state or covariance
ApartFromEstimator ==
  \A k \in 1..Len(loop.filterStates) : Recorded(k) \cap Live = {}

\* C25: once the snapshot, the estimate and the position covariance of an
\* iteration are recorded, no later iteration of the run changes them, and
\* the recorded state, full covariance, position covariance and gain are
\* no array that the estimator holds as its state or its covariance
C25_SnapshotsUndisturbed == [][Undisturbed /\ ApartFromEstimator']_vars

\* two recorded iterations of an initialized filter, the earlier with a
\* state, a full covariance, a position covariance and a gain, and a
\* predict and an update made after it was recorded
C25_Witness ==
  /\ Len(loop.filterStates) >= 2
  /\ loop.filterStates[Len(loop.filterStates) - 1].initialized
  /\ loop.filterStates[Len(loop.filterStates) - 1].state # 0
  /\ loop.filterStates[Len(loop.filterStates) - 1].fullCovariance # 0
  /\ loop.filterStates[Len(loop.filterStates) - 1].covariance # 0
  /\ loop.filterStates[Len(loop.filterStates) - 1].kalmanGain # 0
  /\ loop.estimates[Len(loop.filterStates) - 1] # 0
  /\ Last(loop.filterStates).hadMeasurement
  /\ Last(loop.filterStates).initialized

====
